---- MODULE Spec2Model ----
(***************************************************************************)
(* A model of the channel library chan/chan.py: the ring buffer, wishes    *)
(* and wish groups, Chan.put / Chan.get / Chan.close and chanselect, run   *)
(* by threads that follow the thread bodies of tests/chan_tests.py.        *)
(*                                                                         *)
(* Granularity.  A thread's steps are merged while it holds every lock     *)
(* that protects what it touches.  The steps that stay separate are the    *)
(* ones another thread can interleave with: taking a channel lock, the     *)
(* "is the queue non-empty" test and the pop(0) that follows it (the       *)
(* timeout path of put/get removes a wish without the channel lock), and   *)
(* the "with group.lock" block that follows the pop.  A "with group.lock"  *)
(* block never takes another lock, so each is one atomic step.             *)
(***************************************************************************)
EXTENDS Integers, Sequences, FiniteSets, TLC

\* Bounds of the scenarios (not program constants).
NumPhrases == 2
\* Largest capacity of the channel of the sayset / accumulator scenario.
BufLen == 2
\* Capacity of the buffered channel of the three-thread scenarios.
SmallBuf == 1
\* Values each sayset of the fan-in scenario puts.
FanPhrases == 1
\* Largest capacity of the RingBuffer tested alone, and the number of push
\* and pop calls made on it.
RingCap == 3
RingOps == 8

\* Python's None, as a channel value and as "no wish".
None == 0
WISH_PRODUCE == 0
WISH_CONSUME == 1

VARIABLES
    closed,             \* Chan._closed, per channel
    buf,                \* Chan._buf (a RingBuffer record), per channel
    buflen,             \* the buflen each Chan was constructed with (0: _buf is None)
    waiting_producers,  \* Chan._waiting_producers, per channel: wish references
    waiting_consumers,  \* Chan._waiting_consumers, per channel: wish references
    lock,               \* Chan._lock, per channel: the holder, or 0
    groups,             \* groups[t][k]: the k-th call of thread t and its WishGroup
    pc,                 \* per thread: its position in the call it runs
    fr,                 \* per thread: the locals of the call it runs
    prog,               \* per thread: the thread body it runs (tests/chan_tests.py)
    drain               \* history, per channel: the buffer as close() found it
                        \* and the values receivers took since

vars == <<closed, buf, buflen, waiting_producers, waiting_consumers, lock,
          groups, pc, fr, prog, drain>>

Threads == DOMAIN pc
Chans == DOMAIN closed

----------------------------------------------------------------------------
\* Sequences

Range(s) == {s[i] : i \in DOMAIN s}

RECURSIVE RemoveFirst(_, _)
\* list.remove(x) on a list that holds x: drops the first occurrence.
RemoveFirst(s, x) ==
    IF s = <<>> THEN <<>>
    ELSE IF Head(s) = x THEN Tail(s)
    ELSE <<Head(s)>> \o RemoveFirst(Tail(s), x)

RECURSIVE SortedSeq(_)
\* list(set(...)).sort(): the distinct elements in increasing order.
SortedSeq(S) ==
    IF S = {} THEN <<>>
    ELSE LET m == CHOOSE x \in S : \A y \in S : x <= y
         IN <<m>> \o SortedSeq(S \ {m})

\* random.shuffle: every permutation of 1..n.
Perms(n) == {p \in [1..n -> 1..n] : \A i, j \in 1..n : p[i] = p[j] => i = j}

----------------------------------------------------------------------------
\* RingBuffer

RingBuffer(n) == [buf |-> [i \in 1..n |-> None], next_pop |-> 0, len |-> 0]

RbCap(rb) == Len(rb.buf)
RbEmpty(rb) == rb.len = 0
RbFull(rb) == rb.len = Len(rb.buf)

\* RbPush storing at the head index, the length left out of next_push
RbPushHead(rb, value) ==
    LET next_push == rb.next_pop % Len(rb.buf)
    IN [rb EXCEPT !.buf[next_push + 1] = value, !.len = @ + 1]

\* push on a buffer that is not full (the callers test full first)
RbPush(rb, value) ==
    LET next_push == (rb.next_pop + rb.len) % Len(rb.buf)
    IN [rb EXCEPT !.buf[next_push + 1] = value, !.len = @ + 1]

\* RbFront reading the slot pushed last
RbBack(rb) == rb.buf[((rb.next_pop + rb.len - 1) % Len(rb.buf)) + 1]

\* pop on a buffer that is not empty: the value popped
RbFront(rb) == rb.buf[rb.next_pop + 1]

\* RbPop leaving the popped value in its slot
RbPopKeep(rb) ==
    [rb EXCEPT !.next_pop = (@ + 1) % Len(rb.buf),
               !.len = @ - 1]

\* pop on a buffer that is not empty: the buffer left
RbPop(rb) ==
    [rb EXCEPT !.buf[rb.next_pop + 1] = None,
               !.next_pop = (@ + 1) % Len(rb.buf),
               !.len = @ - 1]

\* RingBufferPush returning without an error on a full buffer
RingBufferPushSilent(rb, value) ==
    IF rb.len = Len(rb.buf) THEN [rb |-> rb, raised |-> FALSE]
    ELSE [rb |-> RbPush(rb, value), raised |-> FALSE]

\* RingBuffer.push: "if self._len == len(self.buf): raise IndexError()"
RingBufferPush(rb, value) ==
    IF rb.len = Len(rb.buf) THEN [rb |-> rb, raised |-> TRUE]
    ELSE [rb |-> RbPush(rb, value), raised |-> FALSE]

\* RingBuffer.pop: "if self._len == 0: raise IndexError()"
RingBufferPop(rb) ==
    IF rb.len = 0 THEN [rb |-> rb, value |-> None, raised |-> TRUE]
    ELSE [rb |-> RbPop(rb), value |-> RbFront(rb), raised |-> FALSE]

\* The live values, oldest first.
RbContents(rb) ==
    [i \in 1..rb.len |-> rb.buf[((rb.next_pop + i - 1) % Len(rb.buf)) + 1]]

----------------------------------------------------------------------------
\* Calls, wishes and wish groups

PutCall(c, v, to) ==
    [kind |-> "put", chan |-> c, value |-> v, cons |-> <<>>, prods |-> <<>>,
     timeout |-> to]
GetCall(c, to) ==
    [kind |-> "get", chan |-> c, value |-> None, cons |-> <<>>, prods |-> <<>>,
     timeout |-> to]
CloseCall(c) ==
    [kind |-> "close", chan |-> c, value |-> None, cons |-> <<>>, prods |-> <<>>,
     timeout |-> "none"]
SelectCall(cs, ps, to) ==
    [kind |-> "select", chan |-> 0, value |-> None, cons |-> cs, prods |-> ps,
     timeout |-> to]

Wish(kind, chan, value) ==
    [kind |-> kind, chan |-> chan, value |-> value, closed |-> FALSE, xf |-> 0,
     at |-> 0]

Pending == [kind |-> "pending", chan |-> 0, value |-> None]
Outcome(kind, chan, value) == [kind |-> kind, chan |-> chan, value |-> value]

\* A call and the WishGroup it makes.  wishes is WishGroup.wishes, fulfilled_by
\* is WishGroup.fulfilled_by as an index into wishes (0: None).  outcome is how
\* the call ended, by the wish that decided it; xf of a wish counts the values
\* moved on its behalf (both are history, read by no action).  lock is
\* WishGroup.lock: the thread that holds it, or 0.
WishGroup(call, wishes) ==
    [call |-> call, wishes |-> wishes, fulfilled_by |-> 0,
     outcome |-> Pending, by |-> 0, lock |-> 0]

\* The wishes chanselect builds, before the shuffle.
SelectWishes(call) ==
    [i \in 1..Len(call.cons) |-> Wish(WISH_CONSUME, call.cons[i], None)]
    \o [i \in 1..Len(call.prods) |->
            Wish(WISH_PRODUCE, call.prods[i][1], call.prods[i][2])]

\* A wish is referred to as <<t, k, i>>: wish i of the group of call k of
\* thread t.
WishOf(G, w) == G[w[1]][w[2]].wishes[w[3]]

----------------------------------------------------------------------------
\* Thread bodies (tests/chan_tests.py)

NoCall == [kind |-> "nocall", chan |-> 0, value |-> None, cons |-> <<>>,
           prods |-> <<>>, timeout |-> "none"]

\* A test body: a list of calls, each allowed to raise a documented error.
Calls(script) ==
    [role |-> "calls", script |-> script, ins |-> <<>>, outs |-> <<>>, held |-> None]
\* sayset(chan, phrases) and its prefixes: any exception ends the thread.
Sayset(script) ==
    [role |-> "sayset", script |-> script, ins |-> <<>>, outs |-> <<>>, held |-> None]
\* accumulator(chan): for value in chan
Accumulator(c) ==
    [role |-> "accumulator", script |-> <<>>, ins |-> <<c>>, outs |-> <<>>, held |-> None]
\* distributer(inchans, outchans)
Distributer(ins, outs) ==
    [role |-> "distributer", script |-> <<>>, ins |-> ins, outs |-> outs, held |-> None]

\* fanin_until_closed(inchans, outchan)
Fanin(ins, out) ==
    [role |-> "fanin", script |-> <<>>, ins |-> ins, outs |-> <<out>>, held |-> None]

\* The call the thread body makes next.  A distributer left with no input
\* channel calls chanselect([], []), which never returns: no further call.
NextCall(t) ==
    LET p == prog[t] IN
    CASE p.role \in {"calls", "sayset"} ->
            IF p.script = <<>> THEN NoCall ELSE Head(p.script)
      [] p.role = "accumulator" -> GetCall(p.ins[1], "none")
      [] p.role = "fanin" ->
            IF p.held # None THEN PutCall(p.outs[1], p.held, "none")
            ELSE IF p.ins # <<>> THEN SelectCall(p.ins, <<>>, "none")
            ELSE IF p.outs # <<>> THEN CloseCall(p.outs[1])
            ELSE NoCall
      [] p.role = "distributer" ->
            IF p.held # None
            THEN SelectCall(<<>>, [i \in 1..Len(p.outs) |-> <<p.outs[i], p.held>>], "none")
            ELSE IF p.ins = <<>> THEN NoCall
            ELSE SelectCall(p.ins, <<>>, "none")

Documented == {"ok", "Timeout", "ChanClosed", "RuntimeError"}

\* Where the thread body goes when a call ends with outcome out.
AfterCall(p, out) ==
    CASE p.role = "calls" -> IF out.kind \in Documented THEN "idle" ELSE "dead"
      [] p.role = "sayset" -> IF out.kind = "ok" THEN "idle" ELSE "dead"
      [] p.role = "accumulator" ->
            IF out.kind = "ok" THEN "idle"
            ELSE IF out.kind = "ChanClosed" THEN "done" ELSE "dead"
      [] p.role = "distributer" ->
            IF out.kind = "ok" THEN "idle"
            ELSE IF out.kind = "ChanClosed" /\ p.held = None THEN "idle" ELSE "dead"
      [] p.role = "fanin" ->
            IF p.held = None /\ p.ins = <<>>
            THEN (IF out.kind = "ok" THEN "done" ELSE "dead")
            ELSE IF out.kind = "ok" THEN "idle"
            ELSE IF out.kind = "ChanClosed" /\ out.chan \in Range(p.ins) THEN "idle"
            ELSE "dead"

\* What the thread body keeps of the outcome.
Keep(p, out) ==
    CASE p.role \in {"calls", "sayset"} -> [p EXCEPT !.script = Tail(@)]
      [] p.role = "accumulator" -> p
      [] p.role = "distributer" ->
            IF out.kind = "ok"
            THEN [p EXCEPT !.held = IF p.held = None THEN out.value ELSE None]
            ELSE IF out.kind = "ChanClosed" /\ p.held = None
            THEN [p EXCEPT !.ins = RemoveFirst(@, out.chan)]
            ELSE p
      [] p.role = "fanin" ->
            IF p.held = None /\ p.ins = <<>> THEN [p EXCEPT !.outs = <<>>]
            ELSE IF out.kind = "ok"
            THEN [p EXCEPT !.held = IF p.held = None THEN out.value ELSE None]
            ELSE IF out.kind = "ChanClosed" /\ out.chan \in Range(p.ins)
            THEN [p EXCEPT !.ins = RemoveFirst(@, out.chan), !.held = None]
            ELSE p

----------------------------------------------------------------------------
\* The state as one record, so that the steps of a call compose.  Each step
\* below is a function from the state before to the state after.

St ==
    [closed |-> closed, buf |-> buf, wp |-> waiting_producers,
     wc |-> waiting_consumers, lock |-> lock, groups |-> groups,
     pc |-> pc, fr |-> fr, prog |-> prog, drain |-> drain]

Becomes(s) ==
    /\ closed' = s.closed
    /\ buf' = s.buf
    /\ waiting_producers' = s.wp
    /\ waiting_consumers' = s.wc
    /\ lock' = s.lock
    /\ groups' = s.groups
    /\ pc' = s.pc
    /\ fr' = s.fr
    /\ prog' = s.prog
    /\ drain' = s.drain
    /\ UNCHANGED buflen

Frame0 == [need |-> <<>>, idx |-> 0, cur |-> <<>>, popped |-> None,
           cycle |-> FALSE, snap |-> <<>>, sweep |-> FALSE]

K(s, t) == Len(s.groups[t])
Cur(s, t) == s.groups[t][K(s, t)]
\* The wish a call is working on: put/get have one, chanselect is at idx.
Me(s, t) == <<t, K(s, t), IF Cur(s, t).call.kind = "select" THEN s.fr[t].idx ELSE 1>>
\* The channel a call is working on.
OpChan(s, t) ==
    IF Cur(s, t).call.kind = "select"
    THEN Cur(s, t).wishes[s.fr[t].idx].chan
    ELSE Cur(s, t).call.chan

\* WishGroup.fulfilled never seen true
GroupFulfilledNever(s, w) == FALSE

\* WishGroup.fulfilled
GroupFulfilled(s, w) == s.groups[w[1]][w[2]].fulfilled_by # 0

\* The place of the next wish appended to a queue of channel c, among all the
\* wishes of that kind ever appended to it (history).
NextPlace(s, kind, c) ==
    1 + Cardinality({w \in UNION {UNION {{<<t, k, i>> : i \in DOMAIN s.groups[t][k].wishes} :
                                            k \in DOMAIN s.groups[t]} : t \in DOMAIN s.groups} :
                        /\ WishOf(s.groups, w).kind = kind
                        /\ WishOf(s.groups, w).chan = c
                        /\ WishOf(s.groups, w).at > 0})

\* The locks of thread t released ("with" exits, all_locked's finally).
Release(s, t) ==
    [s EXCEPT !.lock = [c \in DOMAIN s.lock |-> IF s.lock[c] = t THEN 0 ELSE s.lock[c]]]

\* The call of thread t ends with outcome out, decided by its wish by (0:
\* none): every lock it holds is released and the thread body goes on.
Fin(s, t, out, by) ==
    LET r == Release(s, t) IN
    [r EXCEPT !.groups[t][K(s, t)].outcome = out,
              !.groups[t][K(s, t)].by = by,
              !.fr[t] = Frame0,
              !.pc[t] = AfterCall(s.prog[t], out),
              !.prog[t] = Keep(s.prog[t], out)]

\* One value moved on behalf of wish w (history).
Moved(s, w) == [s EXCEPT !.groups[w[1]][w[2]].wishes[w[3]].xf = @ + 1]

----------------------------------------------------------------------------
\* Entering a call and taking the channel locks

\* The position a call continues at once it holds its channel locks.
Entry(call, sweep) ==
    IF sweep THEN "sel_sweep"
    ELSE CASE call.kind = "put" -> "put_body"
           [] call.kind = "get" -> "get_nowait"
           [] call.kind = "close" -> "close_body"
           [] call.kind = "select" -> "sel_pass"

\* The channel locks of a group as the wishes list them: no set, no sort.
LocksListed(wishes) == [i \in DOMAIN wishes |-> wishes[i].chan]

\* chan_locks_ordered of a group
LocksOrdered(wishes) == SortedSeq({wishes[i].chan : i \in DOMAIN wishes})

\* put, get and close start at "with self._lock"; chanselect builds its
\* group, shuffles the wishes (p) and sorts the distinct channel locks.
StartCall(s, t, call, p) ==
    IF call.kind = "select"
    THEN LET W == SelectWishes(call)
             wishes == [i \in 1..Len(W) |-> W[p[i]]]
             need == LocksOrdered(wishes)
         IN [s EXCEPT !.groups[t] = Append(@, WishGroup(call, wishes)),
                      !.fr[t] = [Frame0 EXCEPT !.need = need, !.idx = 1],
                      !.pc[t] = IF need = <<>> THEN "sel_pass" ELSE "lock"]
    ELSE [s EXCEPT !.groups[t] = Append(@, WishGroup(call, <<>>)),
                   !.fr[t] = [Frame0 EXCEPT !.need = <<call.chan>>],
                   !.pc[t] = "lock"]

Call(t) ==
    /\ pc[t] = "idle"
    /\ NextCall(t).kind # "nocall"
    /\ LET call == NextCall(t)
           n == IF call.kind = "select" THEN Len(call.cons) + Len(call.prods) ELSE 0
       IN \E p \in Perms(n) : Becomes(StartCall(St, t, call, p))

\* l.acquire() of the next lock the call needs (all_locked takes them in order)
AcquireNext(s, t) ==
    LET c == Head(s.fr[t].need) IN
    [s EXCEPT !.lock[c] = t,
              !.fr[t].need = Tail(@),
              !.pc[t] = IF Tail(s.fr[t].need) = <<>>
                        THEN Entry(Cur(s, t).call, s.fr[t].sweep) ELSE "lock"]

Acquire(t) ==
    /\ pc[t] = "lock"
    /\ lock[Head(fr[t].need)] = 0
    /\ Becomes(AcquireNext(St, t))

----------------------------------------------------------------------------
\* Wish.fulfill

\* "self.group.cond.notify()": the thread that sleeps in cond.wait() of this
\* group wakes and tests the group again; no thread sleeps on the group of a
\* call that has ended.
Notify(s, w) ==
    IF w[2] = K(s, w[1]) /\ s.pc[w[1]] = "sleep" THEN [s EXCEPT !.pc[w[1]] = "wait"] ELSE s

\* WishFulfill without the notify
WishFulfillNoNotify(s, w, value, isclosed) ==
    LET wish == WishOf(s.groups, w)
        f == [s EXCEPT !.groups[w[1]][w[2]].fulfilled_by = w[3],
                       !.groups[w[1]][w[2]].wishes[w[3]].closed = isclosed,
                       !.groups[w[1]][w[2]].wishes[w[3]].value =
                            IF wish.kind = WISH_PRODUCE THEN wish.value ELSE value]
    IN IF isclosed THEN f ELSE Moved(f, w)

\* "assert not self.fulfilled"
WishAssert(s, w) == s.groups[w[1]][w[2]].fulfilled_by = 0

\* Wish.fulfill(value, closed) past its assertion, group locked: the wish
\* becomes the group's fulfilled_by, the group's condition is notified and a
\* consume wish takes the value.
WishFulfill(s, w, value, isclosed) ==
    LET wish == WishOf(s.groups, w)
        f == [s EXCEPT !.groups[w[1]][w[2]].fulfilled_by = w[3],
                       !.groups[w[1]][w[2]].wishes[w[3]].closed = isclosed,
                       !.groups[w[1]][w[2]].wishes[w[3]].value =
                            IF wish.kind = WISH_PRODUCE THEN wish.value ELSE value]
    IN Notify(IF isclosed THEN f ELSE Moved(f, w), w)

Error(kind) == Outcome(kind, 0, None)

----------------------------------------------------------------------------
\* Chan._get_nowait and the rest of Chan.get up to the wait

\* A receiver took v from channel c (history, kept once c is closed).
Taken(s, c, v) ==
    IF s.closed[c] THEN [s EXCEPT !.drain[c].since = Append(@, v)] ELSE s

\* get: "return self._get_nowait()"; chanselect: "return wish.chan, value"
GotValue(s, t, v) ==
    LET c == OpChan(s, t) IN
    IF Cur(s, t).call.kind = "select"
    THEN Fin(Moved(Taken(s, c, v), Me(s, t)), t, Outcome("ok", c, v), s.fr[t].idx)
    ELSE Fin(Taken(s, c, v), t, Outcome("ok", c, v), 0)

\* get: the group and the wish are made and the wish is appended to
\* _waiting_consumers; the channel lock is released.
GetBlock(s, t) ==
    LET c == OpChan(s, t)
        e == [s EXCEPT !.groups[t][K(s, t)].wishes =
                            <<[Wish(WISH_CONSUME, c, None) EXCEPT
                                  !.at = NextPlace(s, WISH_CONSUME, c)]>>,
                       !.wc[c] = Append(@, <<t, K(s, t), 1>>),
                       !.pc[t] = "wait"]
    IN Release(e, t)

\* _get_nowait raised Empty.  get: ChanClosed if closed, Timeout if it must
\* not block, else enqueue.  chanselect: "pass", on to the next wish.
GetEmpty(s, t) ==
    LET call == Cur(s, t).call
        c == OpChan(s, t)
    IN IF call.kind = "select"
       THEN [s EXCEPT !.fr[t].idx = @ + 1, !.pc[t] = "sel_pass"]
       ELSE IF s.closed[c] THEN Fin(s, t, Outcome("ChanClosed", c, None), 0)
       ELSE IF call.timeout = "zero" THEN Fin(s, t, Error("Timeout"), 0)
       ELSE GetBlock(s, t)

\* fulfill_waiting_producer raised Empty: after a buffer pop the popped value
\* is returned ("except Empty: pass"), else Empty goes to the caller.
FwpEmpty(s, t) ==
    IF s.fr[t].cycle THEN GotValue(s, t, s.fr[t].popped) ELSE GetEmpty(s, t)

\* "if self._waiting_producers:" ... "else: raise Empty()"
FwpCheck(s, t) ==
    IF s.wp[OpChan(s, t)] # <<>> THEN [s EXCEPT !.pc[t] = "fwp_pop"]
    ELSE FwpEmpty(s, t)

\* GetNowaitEnter with get testing _closed before _get_nowait, as put does
GetNowaitClosedFirst(s, t) ==
    LET c == OpChan(s, t) IN
    IF s.closed[c] /\ Cur(s, t).call.kind = "get"
    THEN Fin(s, t, Outcome("ChanClosed", c, None), 0)
    ELSE IF buflen[c] > 0 /\ ~RbEmpty(s.buf[c])
    THEN FwpCheck([s EXCEPT !.buf[c] = RbPop(@),
                            !.fr[t].popped = RbFront(s.buf[c]),
                            !.fr[t].cycle = TRUE], t)
    ELSE FwpCheck([s EXCEPT !.fr[t].popped = None, !.fr[t].cycle = FALSE], t)

\* GetNowaitEnter returning the popped value at once: no waiting producer's
\* value is cycled onto the buffer
GetNowaitNoCycle(s, t) ==
    LET c == OpChan(s, t) IN
    IF buflen[c] > 0 /\ ~RbEmpty(s.buf[c])
    THEN GotValue([s EXCEPT !.buf[c] = RbPop(@)], t, RbFront(s.buf[c]))
    ELSE FwpCheck([s EXCEPT !.fr[t].popped = None, !.fr[t].cycle = FALSE], t)

\* _get_nowait up to the first queue test: a non-empty buffer is popped.
GetNowaitEnter(s, t) ==
    LET c == OpChan(s, t) IN
    IF buflen[c] > 0 /\ ~RbEmpty(s.buf[c])
    THEN FwpCheck([s EXCEPT !.buf[c] = RbPop(@),
                            !.fr[t].popped = RbFront(s.buf[c]),
                            !.fr[t].cycle = TRUE], t)
    ELSE FwpCheck([s EXCEPT !.fr[t].popped = None, !.fr[t].cycle = FALSE], t)

\* FwpPopF with pop() in place of pop(0): the wish appended last is taken
FwpPopLast(s, t) ==
    LET c == OpChan(s, t) IN
    IF s.wp[c] = <<>> THEN Fin(s, t, Error("IndexError"), 0)
    ELSE [s EXCEPT !.fr[t].cur = s.wp[c][Len(s.wp[c])],
                   !.wp[c] = SubSeq(@, 1, Len(@) - 1),
                   !.pc[t] = "fwp_fulfill"]

\* "produce_wish = self._waiting_producers.pop(0)": IndexError on a list that
\* a timed-out put emptied since the test.
FwpPopF(s, t) ==
    LET c == OpChan(s, t) IN
    IF s.wp[c] = <<>> THEN Fin(s, t, Error("IndexError"), 0)
    ELSE [s EXCEPT !.fr[t].cur = Head(s.wp[c]),
                   !.wp[c] = Tail(@),
                   !.pc[t] = "fwp_fulfill"]

\* FwpFulfillF without "if not produce_wish.group.fulfilled" (and without the
\* assertion of Wish.fulfill, as in the older chan.py)
FwpFulfillNoCheck(s, t) ==
    LET w == s.fr[t].cur
        c == OpChan(s, t)
        f == WishFulfill(s, w, None, FALSE)
        produced == WishOf(s.groups, w).value
    IN IF s.fr[t].cycle
       THEN GotValue([f EXCEPT !.buf[c] = RbPush(@, produced)], t, s.fr[t].popped)
       ELSE GotValue(f, t, produced)

\* "with produce_wish.group.lock: if not produce_wish.group.fulfilled:
\* return produce_wish.fulfill()", then the caller's use of the value: pushed
\* onto the buffer after a pop, else returned.  A fulfilled wish is dropped
\* and the loop tests the queue again.
FwpFulfillF(s, t) ==
    LET w == s.fr[t].cur
        c == OpChan(s, t)
    IN IF ~GroupFulfilled(s, w)
       THEN IF ~WishAssert(s, w) THEN Fin(s, t, Error("AssertionError"), 0)
            ELSE LET f == WishFulfill(s, w, None, FALSE)
                     produced == WishOf(s.groups, w).value
                 IN IF s.fr[t].cycle
                    THEN GotValue([f EXCEPT !.buf[c] = RbPush(@, produced)], t,
                                  s.fr[t].popped)
                    ELSE GotValue(f, t, produced)
       ELSE FwpCheck([s EXCEPT !.fr[t].cur = <<>>], t)

GetNowait(t) ==
    /\ pc[t] = "get_nowait"
    /\ Becomes(GetNowaitEnter(St, t))

FwpPop(t) ==
    /\ pc[t] = "fwp_pop"
    /\ Becomes(FwpPopF(St, t))

FwpFulfill(t) ==
    /\ pc[t] = "fwp_fulfill"
    /\ Becomes(FwpFulfillF(St, t))

----------------------------------------------------------------------------
\* Chan._put_nowait and the rest of Chan.put up to the wait

\* put: "return"; chanselect: "return wish.chan, None"
PutDone(s, t) ==
    IF Cur(s, t).call.kind = "select"
    THEN Fin(Moved(s, Me(s, t)), t, Outcome("ok", OpChan(s, t), None), s.fr[t].idx)
    ELSE Fin(s, t, Outcome("ok", OpChan(s, t), None), 0)

\* The value the call is sending.
PutValue(s, t) ==
    IF Cur(s, t).call.kind = "select"
    THEN Cur(s, t).wishes[s.fr[t].idx].value
    ELSE Cur(s, t).call.value

\* put: the group and the wish are made and the wish is appended to
\* _waiting_producers; the channel lock is released.
PutBlock(s, t) ==
    LET c == OpChan(s, t)
        e == [s EXCEPT !.groups[t][K(s, t)].wishes =
                            <<[Wish(WISH_PRODUCE, c, PutValue(s, t)) EXCEPT
                                  !.at = NextPlace(s, WISH_PRODUCE, c)]>>,
                       !.wp[c] = Append(@, <<t, K(s, t), 1>>),
                       !.pc[t] = "wait"]
    IN Release(e, t)

\* PutFull with the put returning as if the value had been taken
PutFullReturns(s, t) == PutDone(s, t)

\* _put_nowait raised Full.  put: Timeout if it must not block, else
\* enqueue.  chanselect: "pass", on to the next wish.
PutFull(s, t) ==
    LET call == Cur(s, t).call IN
    IF call.kind = "select"
    THEN [s EXCEPT !.fr[t].idx = @ + 1, !.pc[t] = "sel_pass"]
    ELSE IF call.timeout = "zero" THEN Fin(s, t, Error("Timeout"), 0)
    ELSE PutBlock(s, t)

\* PnCheck without the test of _waiting_consumers
PnCheckNoConsumers(s, t) ==
    LET c == OpChan(s, t) IN
    IF buflen[c] > 0 /\ ~RbFull(s.buf[c])
    THEN PutDone([s EXCEPT !.buf[c] = RbPush(@, PutValue(s, t))], t)
    ELSE PutFull(s, t)

\* "if self._waiting_consumers:" ... "elif self._buf is not None and not
\* self._buf.full: push" ... "else: raise Full()"
PnCheck(s, t) ==
    LET c == OpChan(s, t) IN
    IF s.wc[c] # <<>> THEN [s EXCEPT !.pc[t] = "pn_pop"]
    ELSE IF buflen[c] > 0 /\ ~RbFull(s.buf[c])
    THEN PutDone([s EXCEPT !.buf[c] = RbPush(@, PutValue(s, t))], t)
    ELSE PutFull(s, t)

\* put under the channel lock: ChanClosed on a closed channel, else
\* _put_nowait up to the first queue test.
PutEnter(s, t) ==
    LET c == OpChan(s, t) IN
    IF s.closed[c] THEN Fin(s, t, Outcome("ChanClosed", c, None), 0)
    ELSE PnCheck(s, t)

\* "consume_wish = self._waiting_consumers.pop(0)": IndexError on a list that
\* a timed-out get emptied since the test.
PnPopF(s, t) ==
    LET c == OpChan(s, t) IN
    IF s.wc[c] = <<>> THEN Fin(s, t, Error("IndexError"), 0)
    ELSE [s EXCEPT !.fr[t].cur = Head(s.wc[c]),
                   !.wc[c] = Tail(@),
                   !.pc[t] = "pn_fulfill"]

\* PnFulfillF without "if not consume_wish.group.fulfilled" (and without the
\* assertion of Wish.fulfill)
PnFulfillNoCheck(s, t) ==
    PutDone(Taken(WishFulfill(s, s.fr[t].cur, PutValue(s, t), FALSE),
                  OpChan(s, t), PutValue(s, t)), t)

\* "with consume_wish.group.lock: if not consume_wish.group.fulfilled:
\* consume_wish.fulfill(value); return".  A fulfilled wish is dropped and the
\* loop tests the queue again.
PnFulfillF(s, t) ==
    LET w == s.fr[t].cur IN
    IF ~GroupFulfilled(s, w)
    THEN IF ~WishAssert(s, w) THEN Fin(s, t, Error("AssertionError"), 0)
         ELSE PutDone(Taken(WishFulfill(s, w, PutValue(s, t), FALSE),
                            OpChan(s, t), PutValue(s, t)), t)
    ELSE PnCheck([s EXCEPT !.fr[t].cur = <<>>], t)

PutBody(t) ==
    /\ pc[t] = "put_body"
    /\ Becomes(PutEnter(St, t))

PnPop(t) ==
    /\ pc[t] = "pn_pop"
    /\ Becomes(PnPopF(St, t))

PnFulfill(t) ==
    /\ pc[t] = "pn_fulfill"
    /\ Becomes(PnFulfillF(St, t))

----------------------------------------------------------------------------
\* chanselect under its channel locks

RECURSIVE EnqueueFrom(_, _, _)
\* "for wish in group.wishes: ... append(wish)", from wish i on
EnqueueFrom(s, t, i) ==
    LET g == Cur(s, t) IN
    IF i > Len(g.wishes) THEN s
    ELSE LET c == g.wishes[i].chan
             w == <<t, K(s, t), i>>
             e == [s EXCEPT !.groups[t][K(s, t)].wishes[i].at =
                                NextPlace(s, g.wishes[i].kind, c)]
         IN EnqueueFrom(IF g.wishes[i].kind = WISH_CONSUME
                        THEN [e EXCEPT !.wc[c] = Append(@, w)]
                        ELSE [e EXCEPT !.wp[c] = Append(@, w)], t, i + 1)

\* Every wish is enqueued and the channel locks are released.
SelectBlock(s, t) == Release([EnqueueFrom(s, t, 1) EXCEPT !.pc[t] = "wait"], t)

\* One turn of "for wish in group.wishes" up to the first queue test of the
\* non-blocking operation, or what follows the loop.
SelectPassF(s, t) ==
    LET g == Cur(s, t)
        i == s.fr[t].idx
    IN IF i > Len(g.wishes)
       THEN IF g.call.timeout = "zero" THEN Fin(s, t, Error("Timeout"), 0)
            ELSE SelectBlock(s, t)
       ELSE IF s.closed[g.wishes[i].chan]
            THEN Fin(s, t, Outcome("ChanClosed", g.wishes[i].chan, None), 0)
       ELSE IF g.wishes[i].kind = WISH_CONSUME THEN GetNowaitEnter(s, t)
       ELSE PnCheck(s, t)

SelectPass(t) ==
    /\ pc[t] = "sel_pass"
    /\ Becomes(SelectPassF(St, t))

----------------------------------------------------------------------------
\* Waiting on the group's condition

\* list.remove(w), ValueError tolerated
Discard(q, w) == IF w \in Range(q) THEN RemoveFirst(q, w) ELSE q

\* put/get leave "while not group.fulfilled": ChanClosed if the wish was
\* fulfilled by close, else the wish's value (get) or None (put).
WaitDone(s, t) ==
    LET wish == Cur(s, t).wishes[1] IN
    IF wish.closed THEN Fin(s, t, Outcome("ChanClosed", wish.chan, None), 1)
    ELSE Fin(s, t, Outcome("ok", wish.chan,
                           IF wish.kind = WISH_CONSUME THEN wish.value ELSE None), 1)

\* chanselect leaves its wait loop and takes the channel locks again.
ToSweep(s, t) ==
    LET need == LocksOrdered(Cur(s, t).wishes) IN
    [s EXCEPT !.fr[t].sweep = TRUE,
              !.fr[t].need = need,
              !.pc[t] = IF need = <<>> THEN "sel_sweep" ELSE "lock"]

\* TimedOut without the removal of the wish
TimedOutKeep(s, t) == Fin(s, t, Error("Timeout"), 0)

\* put/get past the deadline and not fulfilled, group locked:
\* "self._waiting_consumers.remove(wish); raise Timeout()".  The channel lock
\* is not held; remove raises ValueError when the wish is no longer there.
TimedOut(s, t) ==
    LET wish == Cur(s, t).wishes[1]
        w == <<t, K(s, t), 1>>
        c == wish.chan
        q == IF wish.kind = WISH_CONSUME THEN s.wc[c] ELSE s.wp[c]
    IN IF w \notin Range(q) THEN Fin(s, t, Error("ValueError"), 0)
       ELSE IF wish.kind = WISH_CONSUME
       THEN Fin([s EXCEPT !.wc[c] = RemoveFirst(@, w)], t, Error("Timeout"), 0)
       ELSE Fin([s EXCEPT !.wp[c] = RemoveFirst(@, w)], t, Error("Timeout"), 0)

\* The waiter finds its group fulfilled.
Wake(t) ==
    /\ pc[t] = "wait"
    /\ Cur(St, t).fulfilled_by # 0
    /\ Becomes(IF Cur(St, t).call.kind = "select" THEN ToSweep(St, t)
               ELSE WaitDone(St, t))

\* The same block with cond.wait() as a step of its own: "with group.lock:
\* while not group.fulfilled: group.cond.wait()".  The test and the start of
\* the wait are one step, the group lock being held from the test until
\* cond.wait() releases it; the thread then sleeps until a notify.
WaitTest(t) ==
    /\ pc[t] = "wait"
    /\ Becomes(IF Cur(St, t).fulfilled_by = 0 THEN [St EXCEPT !.pc[t] = "sleep"]
               ELSE IF Cur(St, t).call.kind = "select" THEN ToSweep(St, t)
               ELSE WaitDone(St, t))

\* The deadline passes before the group is fulfilled.
Expire(t) ==
    /\ pc[t] = "wait"
    /\ Cur(St, t).call.timeout = "finite"
    /\ Cur(St, t).fulfilled_by = 0
    /\ Becomes(IF Cur(St, t).call.kind = "select" THEN ToSweep(St, t)
               ELSE TimedOut(St, t))

\* UnqueueFrom removing nothing
UnqueueNone(s, t, i) == s

RECURSIVE UnqueueFrom(_, _, _)
\* "for wish in group.wishes: try: ... remove(wish) except ValueError: pass"
UnqueueFrom(s, t, i) ==
    LET g == Cur(s, t) IN
    IF i > Len(g.wishes) THEN s
    ELSE LET c == g.wishes[i].chan
             w == <<t, K(s, t), i>>
         IN UnqueueFrom(IF g.wishes[i].kind = WISH_CONSUME
                        THEN [s EXCEPT !.wc[c] = Discard(@, w)]
                        ELSE [s EXCEPT !.wp[c] = Discard(@, w)], t, i + 1)

\* SelectResult reading the first wish of the group in place of fulfilled_by
SelectResultFirst(s, t) ==
    LET g == Cur(s, t) IN
    IF g.fulfilled_by = 0 THEN Fin(s, t, Error("Timeout"), 0)
    ELSE IF g.wishes[g.fulfilled_by].closed
         THEN Fin(s, t, Outcome("ChanClosed", g.wishes[1].chan, None), g.fulfilled_by)
         ELSE Fin(s, t, Outcome("ok", g.wishes[1].chan, g.wishes[1].value), g.fulfilled_by)

\* "wish = group.fulfilled_by" and the three ways chanselect ends after it
SelectResult(s, t) ==
    LET g == Cur(s, t) IN
    IF g.fulfilled_by = 0 THEN Fin(s, t, Error("Timeout"), 0)
    ELSE LET wish == g.wishes[g.fulfilled_by] IN
         IF wish.closed THEN Fin(s, t, Outcome("ChanClosed", wish.chan, None), g.fulfilled_by)
         ELSE Fin(s, t, Outcome("ok", wish.chan, wish.value), g.fulfilled_by)

\* chanselect after its wait: the wishes are removed from the queues under
\* the channel locks, the locks are released and the result is read.  (The
\* only step of another thread that can fall between the release and the
\* read is a close() fulfilling from its snapshot, which can as well come
\* before the sweep.)
SweepF(s, t) == SelectResult(UnqueueFrom(s, t, 1), t)

Sweep(t) ==
    /\ pc[t] = "sel_sweep"
    /\ Becomes(SweepF(St, t))

----------------------------------------------------------------------------
\* Chan.close

\* CloseEnter without the test of _closed
CloseEnterAgain(s, t) ==
    LET c == OpChan(s, t)
        wishes == s.wp[c] \o s.wc[c]
        e == [s EXCEPT !.closed[c] = TRUE]
    IN IF wishes = <<>> THEN Fin(e, t, Outcome("ok", c, None), 0)
       ELSE Release([e EXCEPT !.fr[t].snap = wishes, !.pc[t] = "close_loop"], t)

\* close under the channel lock: RuntimeError on a closed channel, else the
\* flag is set and the waiting wishes are copied.
CloseEnter(s, t) ==
    LET c == OpChan(s, t) IN
    IF s.closed[c] THEN Fin(s, t, Error("RuntimeError"), 0)
    ELSE LET wishes == s.wp[c] \o s.wc[c]
             e == [s EXCEPT !.closed[c] = TRUE,
                            !.drain[c].at_close = RbContents(s.buf[c])]
         IN IF wishes = <<>> THEN Fin(e, t, Outcome("ok", c, None), 0)
            ELSE Release([e EXCEPT !.fr[t].snap = wishes, !.pc[t] = "close_loop"], t)

\* CloseFulfillF without "if not wish.fulfilled" (and without the assertion
\* of Wish.fulfill): close marks every wish of its copy closed
CloseFulfillAlways(s, t) ==
    LET w == Head(s.fr[t].snap)
        c == OpChan(s, t)
        f == [Notify(s, w) EXCEPT !.groups[w[1]][w[2]].fulfilled_by = w[3],
                                  !.groups[w[1]][w[2]].wishes[w[3]].closed = TRUE]
    IN IF Tail(s.fr[t].snap) = <<>> THEN Fin(f, t, Outcome("ok", c, None), 0)
       ELSE [f EXCEPT !.fr[t].snap = Tail(@)]

\* One turn of "for wish in wishes: with wish.group.lock: if not
\* wish.fulfilled: wish.fulfill(closed=True)"
CloseFulfillF(s, t) ==
    LET w == Head(s.fr[t].snap)
        c == OpChan(s, t)
        f == IF ~GroupFulfilled(s, w) THEN WishFulfill(s, w, None, TRUE) ELSE s
    IN IF ~GroupFulfilled(s, w) /\ ~WishAssert(s, w)
       THEN Fin(s, t, Error("AssertionError"), 0)
       ELSE IF Tail(s.fr[t].snap) = <<>> THEN Fin(f, t, Outcome("ok", c, None), 0)
       ELSE [f EXCEPT !.fr[t].snap = Tail(@)]

CloseBody(t) ==
    /\ pc[t] = "close_body"
    /\ Becomes(CloseEnter(St, t))

CloseFulfill(t) ==
    /\ pc[t] = "close_loop"
    /\ Becomes(CloseFulfillF(St, t))

----------------------------------------------------------------------------
\* The group locks as steps of their own.  In the actions above a block
\* "with group.lock: ..." is one step; here the acquire is a step, the block
\* is the next one and the lock is released where the block ends.

\* The positions at which a thread is at "with <group>.lock:".
AtGroupLock == {"fwp_fulfill", "pn_fulfill", "close_loop", "wait"}

\* The group whose lock thread t is at, as <<thread, call>>: the popped
\* wish's (_get_nowait, _put_nowait), the next of the copy (close), its own
\* (the wait loops).
GroupWanted(s, t) ==
    IF s.pc[t] = "wait" THEN <<t, K(s, t)>>
    ELSE IF s.pc[t] = "close_loop" THEN SubSeq(Head(s.fr[t].snap), 1, 2)
    ELSE SubSeq(s.fr[t].cur, 1, 2)

\* The groups whose lock thread t holds.
GroupLocksHeld(s, t) ==
    {g \in UNION {{<<u, k>> : k \in DOMAIN s.groups[u]} : u \in DOMAIN s.groups} :
        s.groups[g[1]][g[2]].lock = t}

\* group.lock.acquire()
GroupLockAcquire(s, t) ==
    LET g == GroupWanted(s, t) IN [s EXCEPT !.groups[g[1]][g[2]].lock = t]

\* The end of "with group.lock:" (and cond.wait() letting go of the lock)
GroupLockRelease(s, t) ==
    [s EXCEPT !.groups = [u \in DOMAIN s.groups |->
                            [k \in DOMAIN s.groups[u] |->
                                IF s.groups[u][k].lock = t
                                THEN [s.groups[u][k] EXCEPT !.lock = 0]
                                ELSE s.groups[u][k]]]]

\* Thread t is inside the block, the lock of the group taken.
InGroupLock(t) ==
    /\ pc[t] \in AtGroupLock
    /\ LET g == GroupWanted(St, t) IN groups[g[1]][g[2]].lock = t

GroupAcquire(t) ==
    /\ pc[t] \in AtGroupLock
    /\ LET g == GroupWanted(St, t) IN groups[g[1]][g[2]].lock = 0
    /\ Becomes(GroupLockAcquire(St, t))

FwpFulfillLocked(t) ==
    /\ pc[t] = "fwp_fulfill"
    /\ InGroupLock(t)
    /\ Becomes(GroupLockRelease(FwpFulfillF(St, t), t))

PnFulfillLocked(t) ==
    /\ pc[t] = "pn_fulfill"
    /\ InGroupLock(t)
    /\ Becomes(GroupLockRelease(PnFulfillF(St, t), t))

CloseFulfillLocked(t) ==
    /\ pc[t] = "close_loop"
    /\ InGroupLock(t)
    /\ Becomes(GroupLockRelease(CloseFulfillF(St, t), t))

\* WaitLeave going on inside "with group.lock:", the lock kept
WaitLeaveHolding(s, t) ==
    IF Cur(s, t).call.kind = "select" THEN ToSweep(s, t) ELSE WaitDone(s, t)

\* The wait loop is left by its test or by chanselect's "break": the block
\* "with group.lock:" ends, and chanselect goes on to "with
\* all_locked(chan_locks_ordered):", put and get to their result.
WaitLeave(s, t) ==
    LET r == GroupLockRelease(s, t) IN
    IF Cur(s, t).call.kind = "select" THEN ToSweep(r, t) ELSE WaitDone(r, t)

\* "while not group.fulfilled: group.cond.wait(...)": cond.wait() lets go of
\* the lock and the thread sleeps.
WaitLocked(t) ==
    /\ pc[t] = "wait"
    /\ InGroupLock(t)
    /\ Becomes(IF Cur(St, t).fulfilled_by = 0
               THEN GroupLockRelease([St EXCEPT !.pc[t] = "sleep"], t)
               ELSE WaitLeave(St, t))

\* cond.wait(timeout) returns by its timeout: the thread takes the group
\* lock again before it goes on.
Alarm(t) ==
    /\ pc[t] = "sleep"
    /\ Cur(St, t).call.timeout = "finite"
    /\ Becomes([St EXCEPT !.pc[t] = "wait"])

\* Back from cond.wait(timeout) past the deadline with the group not
\* fulfilled: chanselect breaks, put and get remove their wish and raise
\* Timeout inside the block.
ExpireLocked(t) ==
    /\ pc[t] = "wait"
    /\ InGroupLock(t)
    /\ Cur(St, t).call.timeout = "finite"
    /\ Cur(St, t).fulfilled_by = 0
    /\ Becomes(IF Cur(St, t).call.kind = "select" THEN WaitLeave(St, t)
               ELSE GroupLockRelease(TimedOut(St, t), t))

----------------------------------------------------------------------------
\* Scenarios

\* The state after the channels are constructed and before any thread runs.
Start(lens, progs) ==
    /\ buflen = lens
    /\ closed = [c \in DOMAIN lens |-> FALSE]
    /\ buf = [c \in DOMAIN lens |-> RingBuffer(lens[c])]
    /\ waiting_producers = [c \in DOMAIN lens |-> <<>>]
    /\ waiting_consumers = [c \in DOMAIN lens |-> <<>>]
    /\ lock = [c \in DOMAIN lens |-> 0]
    /\ groups = [t \in DOMAIN progs |-> <<>>]
    /\ pc = [t \in DOMAIN progs |-> "idle"]
    /\ fr = [t \in DOMAIN progs |-> Frame0]
    /\ prog = progs
    /\ drain = [c \in DOMAIN lens |-> [at_close |-> <<>>, since |-> <<>>]]

\* test_nothing_lost, scaled down: a sayer on channel 1, a distributer from
\* (1) to (2, 3), a distributer from (1, 3) to (2), and an accumulator on 2.
\* The sayer does not close.
InitNet ==
    Start(<<0, 0, 0>>,
          <<Sayset([i \in 1..NumPhrases |-> PutCall(1, i, "none")]),
            Distributer(<<1>>, <<2, 3>>),
            Distributer(<<1, 3>>, <<2>>),
            Accumulator(2)>>)

NextNet ==
    \/ \E t \in Threads : Call(t)
    \/ \E t \in Threads : Acquire(t)
    \/ \E t \in Threads : GetNowait(t)
    \/ \E t \in Threads : FwpPop(t)
    \/ \E t \in Threads : FwpFulfill(t)
    \/ \E t \in Threads : PutBody(t)
    \/ \E t \in Threads : PnPop(t)
    \/ \E t \in Threads : PnFulfill(t)
    \/ \E t \in Threads : SelectPass(t)
    \/ \E t \in Threads : Wake(t)
    \/ \E t \in Threads : Sweep(t)

SpecNet == InitNet /\ [][NextNet]_vars

\* test_buf_overfull, test_buf_kept_empty and test_iter_and_closed, scaled
\* down: sayset puts more values than the buffer holds and closes, on a
\* channel of any capacity up to BufLen.
NumPut == BufLen + NumPhrases

Puts == [i \in 1..NumPut |-> PutCall(1, i, "none")]

\* The sayset closes when it has put everything and one or two accumulators
\* iterate (test_iter_and_closed), or another thread closes at any moment.
Pipes ==
    {<<Sayset(Puts \o <<CloseCall(1)>>), Accumulator(1)>>,
     <<Sayset(Puts \o <<CloseCall(1)>>), Accumulator(1), Accumulator(1)>>,
     <<Sayset(Puts), Accumulator(1), Calls(<<CloseCall(1)>>)>>}

InitPipe == \E n \in 0..BufLen, progs \in Pipes : Start(<<n>>, progs)

NextPipe ==
    \/ \E t \in Threads : Call(t)
    \/ \E t \in Threads : Acquire(t)
    \/ \E t \in Threads : GetNowait(t)
    \/ \E t \in Threads : FwpPop(t)
    \/ \E t \in Threads : FwpFulfill(t)
    \/ \E t \in Threads : PutBody(t)
    \/ \E t \in Threads : PnPop(t)
    \/ \E t \in Threads : PnFulfill(t)
    \/ \E t \in Threads : Wake(t)
    \/ \E t \in Threads : CloseBody(t)
    \/ \E t \in Threads : CloseFulfill(t)

SpecPipe == InitPipe /\ [][NextPipe]_vars

\* Three threads on an unbuffered channel 1 and a channel 2 of capacity
\* SmallBuf, with and without timeouts (test_putget_timeout,
\* test_chanselect_timeout, test_select_and_closed): one calls chanselect,
\* one puts or gets, one closes, puts or gets.
Timeouts == {"none", "zero", "finite"}

Selects ==
    {SelectCall(<<1, 2>>, <<>>, to) : to \in Timeouts}
    \cup {SelectCall(<<1>>, <<<<2, 7>>>>, to) : to \in Timeouts}
    \cup {SelectCall(<<>>, <<<<1, 8>>, <<2, 9>>>>, to) : to \in Timeouts}
    \cup {SelectCall(<<2>>, <<<<1, 6>>>>, to) : to \in Timeouts}

PutsGets ==
    {PutCall(c, c, to) : c \in 1..2, to \in Timeouts}
    \cup {GetCall(c, to) : c \in 1..2, to \in Timeouts}

\* The first thread calls put, get or close in place of chanselect.
Plain ==
    {GetCall(c, to) : c \in 1..2, to \in {"none", "zero"}}
    \cup {PutCall(c, 4 + c, "zero") : c \in 1..2}
    \cup {CloseCall(c) : c \in 1..2}

Others ==
    {CloseCall(c) : c \in 1..2}
    \cup {PutCall(c, 2 + c, "finite") : c \in 1..2}
    \cup {GetCall(c, "finite") : c \in 1..2}

Init ==
    \E a \in Selects \cup Plain, b \in PutsGets, c \in Others :
        Start(<<0, SmallBuf>>, <<Calls(<<a>>), Calls(<<b>>), Calls(<<c>>)>>)

Next ==
    \/ \E t \in Threads : Call(t)
    \/ \E t \in Threads : Acquire(t)
    \/ \E t \in Threads : GetNowait(t)
    \/ \E t \in Threads : FwpPop(t)
    \/ \E t \in Threads : FwpFulfill(t)
    \/ \E t \in Threads : PutBody(t)
    \/ \E t \in Threads : PnPop(t)
    \/ \E t \in Threads : PnFulfill(t)
    \/ \E t \in Threads : SelectPass(t)
    \/ \E t \in Threads : Wake(t)
    \/ \E t \in Threads : Expire(t)
    \/ \E t \in Threads : Sweep(t)
    \/ \E t \in Threads : CloseBody(t)
    \/ \E t \in Threads : CloseFulfill(t)

Spec == Init /\ [][Next]_vars

\* A step of thread t.
Step(t) ==
    /\ t \in Threads
    /\ \/ Call(t) \/ Acquire(t) \/ GetNowait(t) \/ FwpPop(t) \/ FwpFulfill(t)
       \/ PutBody(t) \/ PnPop(t) \/ PnFulfill(t) \/ SelectPass(t)
       \/ Wake(t) \/ Expire(t) \/ Sweep(t) \/ CloseBody(t) \/ CloseFulfill(t)

\* test_select_and_closed, scaled down: a sayset on channel 1 and one on
\* channel 2, each putting FanPhrases values and closing; a fan-in from
\* (1, 2) to channel 3, which it closes at the end.  Channel 3 has room for
\* every value, in place of the accumulator of the test.
InitFan ==
    Start(<<0, 0, 2 * FanPhrases>>,
          <<Sayset([i \in 1..FanPhrases |-> PutCall(1, i, "none")] \o <<CloseCall(1)>>),
            Sayset([i \in 1..FanPhrases |-> PutCall(2, FanPhrases + i, "none")]
                   \o <<CloseCall(2)>>),
            Fanin(<<1, 2>>, 3)>>)

NextFan ==
    \/ \E t \in Threads : Call(t)
    \/ \E t \in Threads : Acquire(t)
    \/ \E t \in Threads : FwpPop(t)
    \/ \E t \in Threads : FwpFulfill(t)
    \/ \E t \in Threads : PutBody(t)
    \/ \E t \in Threads : PnPop(t)
    \/ \E t \in Threads : PnFulfill(t)
    \/ \E t \in Threads : SelectPass(t)
    \/ \E t \in Threads : Wake(t)
    \/ \E t \in Threads : Sweep(t)
    \/ \E t \in Threads : CloseBody(t)
    \/ \E t \in Threads : CloseFulfill(t)

\* Some thread that can run is scheduled: no thread spins (a lock, a condition
\* wait and a join block), so this is all the fan-in needs of the scheduler.
SpecFan == InitFan /\ [][NextFan]_vars /\ WF_vars(NextFan)

\* Two threads call chanselect over overlapping channels, in either order of
\* the channels and with a channel listed twice (as a receive and a send, or
\* as two receives), while a third thread puts, gets or closes.
LockSelects ==
    {SelectCall(<<1, 2>>, <<>>, to) : to \in {"none", "finite"}}
    \cup {SelectCall(<<2>>, <<<<1, 6>>>>, to) : to \in {"none", "finite"}}
    \cup {SelectCall(<<1>>, <<<<1, 7>>>>, "none"), SelectCall(<<2, 2>>, <<>>, "none")}

InitLock ==
    \E a \in LockSelects, b \in LockSelects, c \in Others :
        Start(<<0, SmallBuf>>, <<Calls(<<a>>), Calls(<<b>>), Calls(<<c>>)>>)

SpecLock == InitLock /\ [][Next]_vars

\* test_simple, and the same pair again: thread 1 puts one or NumPhrases
\* values on an unbuffered channel, thread 2 calls get as many times, no
\* timeout, either of them first.  The condition wait is a step of its own
\* here (WaitTest), so that a thread can be asleep when its wish is fulfilled.
PairValues == 1..3

InitPair ==
    \E n \in 1..NumPhrases : \E vs \in [1..n -> PairValues] :
        Start(<<0>>, <<Calls([i \in 1..n |-> PutCall(1, vs[i], "none")]),
                       Calls([i \in 1..n |-> GetCall(1, "none")])>>)

NextPair ==
    \/ \E t \in Threads : Call(t)
    \/ \E t \in Threads : Acquire(t)
    \/ \E t \in Threads : GetNowait(t)
    \/ \E t \in Threads : FwpPop(t)
    \/ \E t \in Threads : FwpFulfill(t)
    \/ \E t \in Threads : PutBody(t)
    \/ \E t \in Threads : PnPop(t)
    \/ \E t \in Threads : PnFulfill(t)
    \/ \E t \in Threads : WaitTest(t)

\* Some thread that can run is scheduled.
SpecPair == InitPair /\ [][NextPair]_vars /\ WF_vars(NextPair)

\* A closed channel with values left in its buffer: thread 1 fills channel 2
\* (or not) and closes it, thread 2 puts or gets on channel 1, and thread 3
\* calls chanselect with a receive candidate on channel 2 and then get on
\* channel 2.
ShutSelects ==
    {SelectCall(<<2>>, <<>>, "none"), SelectCall(<<1, 2>>, <<>>, "none"),
     SelectCall(<<1, 2>>, <<>>, "finite"), SelectCall(<<2>>, <<<<1, 6>>>>, "none")}

InitShut ==
    \E a \in {<<PutCall(2, 5, "none"), CloseCall(2)>>, <<CloseCall(2)>>},
       b \in {PutCall(1, 1, "none"), PutCall(1, 1, "finite"), GetCall(1, "finite")},
       c \in ShutSelects :
        Start(<<0, SmallBuf>>,
              <<Calls(a), Calls(<<b>>), Calls(<<c, GetCall(2, "zero")>>)>>)

SpecShut == InitShut /\ [][Next]_vars

\* The calls of Spec with the group locks taken and released step by step.
NextGroupLock ==
    \/ \E t \in Threads : Call(t)
    \/ \E t \in Threads : Acquire(t)
    \/ \E t \in Threads : GetNowait(t)
    \/ \E t \in Threads : FwpPop(t)
    \/ \E t \in Threads : PutBody(t)
    \/ \E t \in Threads : PnPop(t)
    \/ \E t \in Threads : SelectPass(t)
    \/ \E t \in Threads : Sweep(t)
    \/ \E t \in Threads : CloseBody(t)
    \/ \E t \in Threads : GroupAcquire(t)
    \/ \E t \in Threads : FwpFulfillLocked(t)
    \/ \E t \in Threads : PnFulfillLocked(t)
    \/ \E t \in Threads : CloseFulfillLocked(t)
    \/ \E t \in Threads : WaitLocked(t)
    \/ \E t \in Threads : Alarm(t)
    \/ \E t \in Threads : ExpireLocked(t)

SpecGroupLock == Init /\ [][NextGroupLock]_vars

\* RingBufferTests: one thread makes up to RingOps push and pop calls, in
\* any order, on a RingBuffer of capacity 0..RingCap held in buf[1]; no
\* channel is involved.  Each call is recorded in groups[1] with its result.
RingValues == 1..2

PushCall(v) ==
    [kind |-> "push", chan |-> 1, value |-> v, cons |-> <<>>, prods |-> <<>>,
     timeout |-> "none"]
PopCall ==
    [kind |-> "pop", chan |-> 1, value |-> None, cons |-> <<>>, prods |-> <<>>,
     timeout |-> "none"]

RingTest == [role |-> "ring", script |-> <<>>, ins |-> <<>>, outs |-> <<>>, held |-> None]

InitRing == \E n \in 0..RingCap : Start(<<n>>, <<RingTest>>)

\* The call and its result appended to the record of thread t.
Recorded(s, t, call, out) ==
    [s EXCEPT !.groups[t] = Append(@, [WishGroup(call, <<>>) EXCEPT !.outcome = out])]

\* buf.push(v)
PushF(s, t, v) ==
    LET r == RingBufferPush(s.buf[1], v) IN
    Recorded([s EXCEPT !.buf[1] = r.rb], t, PushCall(v),
             IF r.raised THEN Error("IndexError") ELSE Outcome("ok", 1, None))

\* buf.pop()
PopF(s, t) ==
    LET r == RingBufferPop(s.buf[1]) IN
    Recorded([s EXCEPT !.buf[1] = r.rb], t, PopCall,
             IF r.raised THEN Error("IndexError") ELSE Outcome("ok", 1, r.value))

Push(t) ==
    /\ prog[t].role = "ring"
    /\ Len(groups[t]) < RingOps
    /\ \E v \in RingValues : Becomes(PushF(St, t, v))

Pop(t) ==
    /\ prog[t].role = "ring"
    /\ Len(groups[t]) < RingOps
    /\ Becomes(PopF(St, t))

NextRing ==
    \/ \E t \in Threads : Push(t)
    \/ \E t \in Threads : Pop(t)

SpecRing == InitRing /\ [][NextRing]_vars

\* A chanselect and a put or get that can block on channel 1, and a thread
\* that closes channel 1.
InitLive ==
    \E a \in {SelectCall(<<1, 2>>, <<>>, "none"), SelectCall(<<2>>, <<<<1, 6>>>>, "finite")},
       b \in {GetCall(1, "none"), GetCall(1, "finite"), PutCall(1, 1, "finite")} :
        Start(<<0, SmallBuf>>, <<Calls(<<a>>), Calls(<<b>>), Calls(<<CloseCall(1)>>)>>)

\* Each thread is scheduled again and again: a thread that can take a step
\* (a lock it waits for is free, its group is fulfilled, its deadline has
\* passed) eventually takes one.
SpecLive == InitLive /\ [][Next]_vars /\ \A t \in 1..3 : WF_vars(Step(t))

----------------------------------------------------------------------------
\* Reading the history

CallIds == UNION {{<<t, k>> : k \in 1..Len(groups[t])} : t \in Threads}
CallOf(tk) == groups[tk[1]][tk[2]]
Ended(g) == g.outcome.kind # "pending"
Returned(g) == g.outcome.kind = "ok"

\* A call that returned by sending, by receiving.
IsSend(g) ==
    \/ g.call.kind = "put"
    \/ g.call.kind = "select" /\ g.by # 0 /\ g.wishes[g.by].kind = WISH_PRODUCE
IsRecv(g) ==
    \/ g.call.kind = "get"
    \/ g.call.kind = "select" /\ g.by # 0 /\ g.wishes[g.by].kind = WISH_CONSUME

SendsReturned(c) ==
    {tk \in CallIds : Returned(CallOf(tk)) /\ IsSend(CallOf(tk)) /\ CallOf(tk).outcome.chan = c}
RecvsReturned(c) ==
    {tk \in CallIds : Returned(CallOf(tk)) /\ IsRecv(CallOf(tk)) /\ CallOf(tk).outcome.chan = c}

\* The values the get calls of thread t returned, in order.
RECURSIVE GotFrom(_, _)
GotFrom(t, k) ==
    IF k > Len(groups[t]) THEN <<>>
    ELSE (IF Returned(groups[t][k]) /\ groups[t][k].call.kind = "get"
          THEN <<groups[t][k].outcome.value>> ELSE <<>>) \o GotFrom(t, k + 1)
Got(t) == GotFrom(t, 1)

\* The values moved on behalf of the wishes of a call.
RECURSIVE XfFrom(_, _)
XfFrom(g, i) == IF i > Len(g.wishes) THEN 0 ELSE g.wishes[i].xf + XfFrom(g, i + 1)
Xf(g) == XfFrom(g, 1)

NoDuplicates(q) == \A i, j \in DOMAIN q : q[i] = q[j] => i = j
IsPrefix(p, q) == Len(p) <= Len(q) /\ \A i \in DOMAIN p : p[i] = q[i]
UpTo(n) == [i \in 1..n |-> i]

\* No thread can take a step: each is done, dead or waiting unfulfilled
\* without a deadline.
Quiescent ==
    \A t \in Threads :
        \/ pc[t] \in {"done", "dead"}
        \/ pc[t] = "idle" /\ NextCall(t).kind = "nocall"
        \/ pc[t] = "wait" /\ Cur(St, t).fulfilled_by = 0 /\ Cur(St, t).call.timeout # "finite"

\* No call is in progress.
NoCallInProgress == \A t \in Threads : pc[t] \in {"idle", "done", "dead"}

----------------------------------------------------------------------------
\* Claims

\* C1 (SpecNet): in the put/get/chanselect network without timeouts the
\* accumulator never receives a value twice, receives only values the sayer
\* put, and once no thread can move it has received every value: none is
\* duplicated and none is lost.
C1_NothingLost ==
    /\ NoDuplicates(Got(4))
    /\ Range(Got(4)) \subseteq 1..NumPhrases
    /\ Quiescent => Range(Got(4)) = 1..NumPhrases

\* C1 witness: the network has come to rest with every phrase collected, one
\* of them forwarded through both distributers.
C1_Witness ==
    /\ Quiescent
    /\ Len(Got(4)) = NumPhrases
    /\ \E k \in 1..Len(groups[3]) :
          Returned(groups[3][k]) /\ IsSend(groups[3][k])
          /\ groups[3][k].wishes[1].value \in 1..NumPhrases
          /\ \E j \in 1..Len(groups[3]) :
                Returned(groups[3][j]) /\ groups[3][j].outcome.chan = 3

\* C2 (Spec) as claimed: whenever no call is in progress, on every channel
\* the sends that returned equal the receives that returned plus the values
\* in the buffer, and no value was received by two calls.
C2_Conservation ==
    NoCallInProgress =>
        /\ \A c \in Chans :
              Cardinality(SendsReturned(c)) = Cardinality(RecvsReturned(c)) + buf[c].len
        /\ \A a, b \in UNION {RecvsReturned(c) : c \in Chans} :
              CallOf(a).outcome.value = CallOf(b).outcome.value => a = b

\* C3 (Spec): fulfilled_by of a group, once a wish, never changes, and the
\* assertion of Wish.fulfill never fails.
C3_FulfilledOnce ==
    [][/\ \A tk \in CallIds :
             CallOf(tk).fulfilled_by # 0 =>
                 groups'[tk[1]][tk[2]].fulfilled_by = CallOf(tk).fulfilled_by
       /\ \A t \in Threads :
             groups'[t] # <<>> =>
                 groups'[t][Len(groups'[t])].outcome.kind # "AssertionError"]_vars

\* C3 witness: a peer has popped a wish of a chanselect and finds the group
\* already fulfilled through the group's other wish.
C3_Witness ==
    \E t \in Threads :
        /\ pc[t] \in {"fwp_fulfill", "pn_fulfill"}
        /\ GroupFulfilled(St, fr[t].cur)
        /\ groups[fr[t].cur[1]][fr[t].cur[2]].fulfilled_by # fr[t].cur[3]

\* C4 (Spec): a chanselect that returned moved exactly one value, on the
\* channel it names and on behalf of the wish that decided it; one that
\* raised Timeout or ChanClosed moved none; and none is moved afterwards.
C4_SelectExclusive ==
    \A tk \in CallIds :
        LET g == CallOf(tk) IN
        g.call.kind = "select" =>
            /\ Xf(g) <= 1
            /\ Returned(g) =>
                  /\ Xf(g) = 1
                  /\ g.by # 0
                  /\ g.wishes[g.by].xf = 1
                  /\ g.outcome.chan = g.wishes[g.by].chan
            /\ g.outcome.kind \in {"Timeout", "ChanClosed"} => Xf(g) = 0

\* C4 witness: a chanselect with candidates on two channels found neither
\* ready, queued both wishes, and returned by the one a peer fulfilled.
C4_Witness ==
    \E tk \in CallIds :
        LET g == CallOf(tk) IN
        /\ g.call.kind = "select" /\ Returned(g)
        /\ g.fulfilled_by # 0 /\ Len(g.wishes) = 2
        /\ g.wishes[1].chan # g.wishes[2].chan
        /\ g.wishes[g.fulfilled_by].xf = 1

\* C5 (Spec) as claimed: a chanselect that returned names the channel of the
\* wish that decided it, with None for a send and the value for a receive.
C5_SelectResult ==
    \A tk \in CallIds :
        LET g == CallOf(tk) IN
        g.call.kind = "select" /\ Returned(g) =>
            /\ g.by # 0
            /\ g.outcome.chan = g.wishes[g.by].chan
            /\ g.wishes[g.by].kind = WISH_PRODUCE => g.outcome.value = None
            /\ g.wishes[g.by].kind = WISH_CONSUME => g.outcome.value # None

\* The first pass of chanselect, all its channel locks held.
InFirstPass(t) ==
    /\ groups[t] # <<>>
    /\ Cur(St, t).call.kind = "select"
    /\ ~fr[t].sweep
    /\ pc[t] \in {"sel_pass", "fwp_pop", "fwp_fulfill", "pn_pop", "pn_fulfill"}

\* C6 (Spec) as claimed: a chanselect that holds its channel locks while a
\* candidate's channel is closed ends with ChanClosed and moves no value.
C6_ClosedWins ==
    [][\A t \in Threads :
          (/\ InFirstPass(t)
           /\ \E i \in DOMAIN Cur(St, t).wishes : closed[Cur(St, t).wishes[i].chan]
           /\ Ended(groups'[t][Len(groups[t])]))
          => (/\ groups'[t][Len(groups[t])].outcome.kind = "ChanClosed"
              /\ Xf(groups'[t][Len(groups[t])]) = 0)]_vars

\* The value popped from the buffer of c by the _get_nowait that holds its
\* lock and has not returned yet.
Inflight(c) ==
    IF \E t \in Threads : lock[c] = t /\ fr[t].cycle /\ pc[t] \in {"fwp_pop", "fwp_fulfill"}
    THEN <<fr[lock[c]].popped>>
    ELSE <<>>

\* The producer wishes in the queue of c whose group is not fulfilled.
LiveProducers(c) == {w \in Range(waiting_producers[c]) : ~GroupFulfilled(St, w)}

HandedTo(t) ==
    IF pc[t] = "wait" /\ Cur(St, t).fulfilled_by # 0 /\ ~Cur(St, t).wishes[1].closed
    THEN <<Cur(St, t).wishes[1].value>>
    ELSE <<>>

\* The value of the put of thread t that waits unfulfilled.
WaitingPut(t) ==
    IF groups[t] # <<>> /\ Cur(St, t).call.kind = "put" /\ ~Ended(Cur(St, t))
       /\ Cur(St, t).wishes # <<>> /\ Cur(St, t).fulfilled_by = 0
    THEN <<Cur(St, t).wishes[1].value>>
    ELSE <<>>

\* C8 (SpecPipe): with one sayset (thread 1) and one accumulator (thread 2),
\* the values received, handed over, popped, buffered and waiting to be sent
\* are 1, 2, ... in this order at every moment, no thread dies, and when the
\* accumulator has seen ChanClosed it has received every value in order.
C8_PipeOrder ==
    Len(prog) = 2 =>
        LET line == Got(2) \o HandedTo(2) \o Inflight(1) \o RbContents(buf[1]) \o WaitingPut(1)
        IN /\ line = UpTo(Len(line))
           /\ pc[1] # "dead" /\ pc[2] # "dead"
           /\ pc[2] = "done" => Got(2) = UpTo(NumPut)

\* C8 witness: the accumulator has popped a value from a full buffer and is
\* about to move the waiting sender's value into the freed slot.
C8_Witness ==
    /\ Len(prog) = 2
    /\ pc[2] = "fwp_fulfill"
    /\ fr[2].cycle
    /\ ~GroupFulfilled(St, fr[2].cur)

\* C9 (Spec): no wish of a call that ended with Timeout is in a queue, and no
\* value is ever moved on behalf of such a call.
C9_TimeoutClean ==
    \A tk \in CallIds :
        LET g == CallOf(tk) IN
        g.outcome.kind = "Timeout" =>
            /\ \A c \in Chans, i \in DOMAIN g.wishes :
                  /\ <<tk[1], tk[2], i>> \notin Range(waiting_producers[c])
                  /\ <<tk[1], tk[2], i>> \notin Range(waiting_consumers[c])
            /\ Xf(g) = 0

\* C9 witness: a chanselect that had enqueued two wishes and a put or get
\* that had enqueued its wish have both ended with Timeout.
C9_Witness ==
    /\ \E tk \in CallIds :
          LET g == CallOf(tk) IN
          g.call.kind = "select" /\ g.outcome.kind = "Timeout"
          /\ g.call.timeout = "finite" /\ Len(g.wishes) = 2
    /\ \E tk \in CallIds :
          LET g == CallOf(tk) IN
          g.call.kind \in {"put", "get"} /\ g.outcome.kind = "Timeout" /\ g.wishes # <<>>

\* C10 (Spec) as claimed: a put or get whose deadline passes while its group
\* is unfulfilled ends with Timeout or with the committed result.
C10_DeadlineOutcome ==
    [][\A t \in Threads :
          (/\ pc[t] = "wait"
           /\ Cur(St, t).call.kind \in {"put", "get"}
           /\ Cur(St, t).fulfilled_by = 0
           /\ Ended(groups'[t][Len(groups[t])]))
          => groups'[t][Len(groups[t])].outcome.kind \in {"Timeout", "ok", "ChanClosed"}]_vars

\* The channels a call operates on.
CallChans(call) ==
    IF call.kind = "select"
    THEN Range(call.cons) \cup {call.prods[i][1] : i \in DOMAIN call.prods}
    ELSE {call.chan}

\* Thread t is inside a call.
InCall(t) == groups[t] # <<>> /\ ~Ended(Cur(St, t))

\* The wish thread t has popped from a queue and not yet looked at.
Held(t) == IF fr[t].cur = <<>> THEN {} ELSE {fr[t].cur}

\* The wishes of a queue whose group is not fulfilled, in order.
Live(s, q) == SelectSeq(q, LAMBDA w : ~GroupFulfilled(s, w))

\* For thread t, holding the lock of c: a put on c can commit, a get on c can.
ReadyPut(t, c) ==
    \/ \E w \in Range(waiting_consumers[c]) \cup Held(t) : ~GroupFulfilled(St, w)
    \/ buflen[c] > 0 /\ ~RbFull(buf[c])
ReadyGet(t, c) ==
    \/ buflen[c] > 0 /\ ~RbEmpty(buf[c])
    \/ fr[t].cycle
    \/ \E w \in Range(waiting_producers[c]) \cup Held(t) : ~GroupFulfilled(St, w)

\* Some operation of the call of thread t can commit.
Ready(t) ==
    LET g == Cur(St, t) IN
    CASE g.call.kind = "put" -> ReadyPut(t, g.call.chan)
      [] g.call.kind = "get" -> ReadyGet(t, g.call.chan)
      [] OTHER -> \E i \in DOMAIN g.wishes :
                      IF g.wishes[i].kind = WISH_PRODUCE
                      THEN ReadyPut(t, g.wishes[i].chan)
                      ELSE ReadyGet(t, g.wishes[i].chan)

\* C11 (Spec) as claimed: a put, get or chanselect with timeout 0 is never
\* waiting and none of its wishes is in a queue; on open channels it ends
\* with success if an operation of it can commit and with Timeout if none
\* can, and a Timeout leaves the live wishes of every queue and the content
\* of every buffer as they were.
C11_ZeroTimeout ==
    [][\A t \in Threads :
          (InCall(t) /\ Cur(St, t).call.timeout = "zero"
                     /\ Cur(St, t).call.kind \in {"put", "get", "select"}) =>
              /\ pc[t] # "wait"
              /\ \A c \in Chans, i \in DOMAIN Cur(St, t).wishes :
                    <<t, K(St, t), i>> \notin
                        Range(waiting_producers[c]) \cup Range(waiting_consumers[c])
              /\ (/\ \A c \in CallChans(Cur(St, t).call) : ~closed[c]
                  /\ Ended(groups'[t][K(St, t)]))
                 => LET out == groups'[t][K(St, t)].outcome IN
                    /\ out.kind = IF Ready(t) THEN "ok" ELSE "Timeout"
                    /\ out.kind = "Timeout" =>
                          \A c \in Chans :
                              /\ RbContents(buf'[c]) = RbContents(buf[c])
                              /\ Live(St, waiting_producers[c]) = Live(St, waiting_producers'[c])
                              /\ Live(St, waiting_consumers[c]) = Live(St, waiting_consumers'[c])]_vars

\* C12 (Spec) as claimed: a put that finds the channel closed when it holds
\* the channel lock ends with ChanClosed and leaves the buffer, the queues
\* and every other group as they were; a put that is waiting on a closed
\* channel ends with ChanClosed, or with success when a receiver took its
\* value (or with Timeout when its deadline passed, nothing taken).
C12_PutOnClosed ==
    [][\A t \in Threads :
          (/\ InCall(t)
           /\ Cur(St, t).call.kind = "put"
           /\ closed[Cur(St, t).call.chan]
           /\ Ended(groups'[t][K(St, t)]))
          => LET g == groups'[t][K(St, t)] IN
             IF pc[t] = "wait"
             THEN /\ g.outcome.kind \in {"ChanClosed", "ok", "Timeout"}
                  /\ g.outcome.kind = "ok" <=> g.wishes[1].xf = 1
             ELSE /\ g.outcome.kind = "ChanClosed"
                  /\ buf' = buf
                  /\ waiting_producers' = waiting_producers
                  /\ waiting_consumers' = waiting_consumers
                  /\ \A u \in Threads \ {t} : groups'[u] = groups[u]]_vars

\* C13 (Spec) as claimed: a get that ends with ChanClosed leaves the channel
\* closed, its buffer empty and no unfulfilled producer wish in its queue;
\* and a get that holds the lock of a closed channel and has popped a
\* buffered value, or has found or holds a waiting sender's wish that is not
\* fulfilled, ends by returning a value.
C13_GetOnClosed ==
    [][\A t \in Threads :
          (/\ InCall(t)
           /\ Cur(St, t).call.kind = "get"
           /\ Ended(groups'[t][K(St, t)]))
          => LET c == Cur(St, t).call.chan
                 out == groups'[t][K(St, t)].outcome
             IN /\ out.kind = "ChanClosed" =>
                      /\ closed'[c]
                      /\ RbEmpty(buf'[c])
                      /\ \A w \in Range(waiting_producers'[c]) :
                            groups'[w[1]][w[2]].fulfilled_by # 0
                /\ (closed[c] /\ lock[c] = t /\ (ReadyGet(t, c) \/ pc[t] = "fwp_pop"))
                   => out.kind = "ok"]_vars

\* C14 (Spec): a close() that finds the channel closed ends with RuntimeError
\* and leaves the flags, the buffers, the queues, every wish group and every
\* other thread as they were.
C14_DoubleClose ==
    [][\A t \in Threads :
          (/\ pc[t] = "close_body"
           /\ closed[Cur(St, t).call.chan]
           /\ pc'[t] # "close_body")
          => /\ groups'[t][K(St, t)].outcome.kind = "RuntimeError"
             /\ closed' = closed
             /\ buf' = buf
             /\ waiting_producers' = waiting_producers
             /\ waiting_consumers' = waiting_consumers
             /\ \A u \in Threads \ {t} : groups'[u] = groups[u] /\ pc'[u] = pc[u]]_vars

\* C14 witness: a second close() has failed while the first is still walking
\* its snapshot and a waiter on the channel is not yet fulfilled.
C14_Witness ==
    \E t, u, v \in Threads :
        /\ groups[t] # <<>>
        /\ Cur(St, t).call.kind = "close"
        /\ Cur(St, t).outcome.kind = "RuntimeError"
        /\ pc[u] = "close_loop"
        /\ pc[v] = "wait"
        /\ Cur(St, v).fulfilled_by = 0
        /\ \E i \in DOMAIN Cur(St, v).wishes :
              Cur(St, v).wishes[i].chan = Cur(St, t).call.chan

\* Thread t has queued the wishes of its call and has not returned: it waits
\* on its group, or (chanselect) is on its way through the sweep.
Blocked(t) ==
    /\ InCall(t)
    /\ Cur(St, t).wishes # <<>>
    /\ pc[t] = "wait" \/ fr[t].sweep

\* Blocked with a wish on a closed channel.
BlockedOnClosed(t) ==
    /\ Blocked(t)
    /\ \E i \in DOMAIN Cur(St, t).wishes : closed[Cur(St, t).wishes[i].chan]

\* C15 (Spec) as claimed, the way a blocked call ends: a put, get or
\* chanselect that is blocked with a wish on a closed channel ends with
\* ChanClosed, by a wish that was fulfilled with the closed flag, or with the
\* result of the commit that came first (or with Timeout when it has a
\* deadline and nothing was committed).
C15_CloseEnds ==
    [][\A t \in Threads :
          (BlockedOnClosed(t) /\ Ended(groups'[t][K(St, t)]))
          => LET g == groups'[t][K(St, t)] IN
             /\ g.outcome.kind \in {"ChanClosed", "ok", "Timeout"}
             /\ g.outcome.kind = "Timeout" =>
                   g.call.timeout = "finite" /\ g.fulfilled_by = 0
             /\ g.outcome.kind = "ChanClosed" =>
                   g.fulfilled_by # 0 /\ g.wishes[g.fulfilled_by].closed
             /\ g.outcome.kind = "ok" =>
                   g.fulfilled_by # 0 /\ ~g.wishes[g.fulfilled_by].closed]_vars

\* C15, unblocking (SpecLive): a call blocked with a wish on a closed channel
\* eventually returns or raises.
C15_CloseUnblocks == \A t \in 1..3 : BlockedOnClosed(t) ~> ~Blocked(t)

\* C16 (Spec) as claimed: a put that is blocked on a channel that has been
\* closed completes: it returns success, its value taken by a receiver (a
\* put with a deadline may end with Timeout instead).
C16_BlockedPutCompletes ==
    [][\A t \in Threads :
          (/\ BlockedOnClosed(t)
           /\ Cur(St, t).call.kind = "put"
           /\ Ended(groups'[t][K(St, t)]))
          => LET g == groups'[t][K(St, t)] IN
             \/ g.outcome.kind = "ok" /\ g.wishes[1].xf = 1
             \/ g.outcome.kind = "Timeout" /\ g.call.timeout = "finite"]_vars

\* Chan.closed, read with the channel lock free: "return self._closed and
\* not self._waiting_producers"
ClosedProperty(c) == closed[c] /\ ~(waiting_producers[c] # <<>>)

\* A put on c, or a chanselect that sends on c, has not returned.
PutInProgress(c) ==
    \E t \in Threads :
        /\ InCall(t)
        /\ \/ Cur(St, t).call.kind = "put" /\ Cur(St, t).call.chan = c
           \/ /\ Cur(St, t).call.kind = "select"
              /\ \E i \in DOMAIN Cur(St, t).call.prods : Cur(St, t).call.prods[i][1] = c

\* C17 (Spec) as claimed: read when no thread holds the channel lock, the
\* closed property is True once the channel is closed and no put is in
\* progress on it, and False only while the channel is open or a sender
\* that has not returned is still queued.
C17_ClosedReports ==
    \A c \in Chans :
        lock[c] = 0 =>
            /\ (closed[c] /\ ~PutInProgress(c)) => ClosedProperty(c)
            /\ ~ClosedProperty(c) => (~closed[c] \/ PutInProgress(c))

\* C18 (Spec): the channel named by a ChanClosed that put, get or chanselect
\* raised is one of the channels of the call and is closed.
C18_WhichClosed ==
    \A tk \in CallIds :
        LET g == CallOf(tk) IN
        (g.call.kind \in {"put", "get", "select"} /\ g.outcome.kind = "ChanClosed") =>
            /\ g.outcome.chan \in CallChans(g.call)
            /\ closed[g.outcome.chan]

\* C18 witness: a chanselect blocked on two channels has raised ChanClosed
\* for the one that was closed meanwhile, the other being open.
C18_Witness ==
    \E tk \in CallIds :
        LET g == CallOf(tk) IN
        /\ g.call.kind = "select" /\ g.outcome.kind = "ChanClosed"
        /\ g.fulfilled_by # 0 /\ Len(g.wishes) = 2
        /\ \E c \in CallChans(g.call) : ~closed[c]

\* The values the chanselect calls of thread t returned, in order.
RECURSIVE SelGotFrom(_, _)
SelGotFrom(t, k) ==
    IF k > Len(groups[t]) THEN <<>>
    ELSE (IF Returned(groups[t][k]) /\ groups[t][k].call.kind = "select"
          THEN <<groups[t][k].outcome.value>> ELSE <<>>) \o SelGotFrom(t, k + 1)
SelGot(t) == SelGotFrom(t, 1)

\* The chanselect calls of thread t that raised ChanClosed naming c.
ClosedSeen(t, c) ==
    {k \in 1..Len(groups[t]) :
        /\ groups[t][k].call.kind = "select"
        /\ groups[t][k].outcome.kind = "ChanClosed"
        /\ groups[t][k].outcome.chan = c}

\* C19 (SpecFan): the fan-in (thread 3) never receives a value twice nor a
\* value no sayset put, sees ChanClosed at most once per input channel, and
\* no thread dies; when it has finished it has received every value and seen
\* ChanClosed once per input channel; and it does finish, every value passed
\* on to channel 3.
C19_FanIn ==
    /\ [](/\ NoDuplicates(SelGot(3))
          /\ Range(SelGot(3)) \subseteq 1..(2 * FanPhrases)
          /\ \A c \in 1..2 : Cardinality(ClosedSeen(3, c)) <= 1
          /\ \A t \in Threads : pc[t] # "dead"
          /\ pc[3] = "done" =>
                /\ Range(SelGot(3)) = 1..(2 * FanPhrases)
                /\ \A c \in 1..2 : Cardinality(ClosedSeen(3, c)) = 1)
    /\ <>(pc[3] = "done" /\ RbContents(buf[3]) = SelGot(3) /\ closed[3])

\* C19 witness: the fan-in has finished, having once been woken from a wait
\* on both channels by a close() and once by a put.
C19_Witness ==
    /\ pc[3] = "done"
    /\ Len(SelGot(3)) = 2 * FanPhrases
    /\ \E j, k \in 1..Len(groups[3]) :
          /\ groups[3][j].call.kind = "select" /\ groups[3][k].call.kind = "select"
          /\ Len(groups[3][j].wishes) = 2 /\ Len(groups[3][k].wishes) = 2
          /\ groups[3][j].fulfilled_by # 0 /\ groups[3][k].fulfilled_by # 0
          /\ groups[3][j].outcome.kind = "ChanClosed"
          /\ groups[3][k].outcome.kind = "ok"

\* The channel locks thread t holds.
HeldLocks(t) == {c \in Chans : lock[c] = t}

\* Thread t is inside l.acquire() of a lock another thread (or itself) holds.
LockWaiting(t) == pc[t] = "lock" /\ lock[Head(fr[t].need)] # 0

\* C20 (SpecLock): a thread takes channel locks in increasing order, each
\* once (the locks it still needs are increasing and above every lock it
\* holds); a thread that holds a channel lock is neither finished nor
\* blocked in a condition wait; and no set of threads is such that each
\* waits for a lock one of the set holds, so that some thread that is not
\* waiting for a lock always remains.
C20_NoLockDeadlock ==
    /\ \A t \in Threads :
          pc[t] = "lock" =>
            /\ \A i \in 1..(Len(fr[t].need) - 1) : fr[t].need[i] < fr[t].need[i + 1]
            /\ \A c \in HeldLocks(t) : c < Head(fr[t].need)
    /\ \A t \in Threads :
          HeldLocks(t) # {} => pc[t] \notin {"idle", "wait", "done", "dead"}
    /\ \A D \in SUBSET Threads :
          D # {} => \E t \in D : ~(LockWaiting(t) /\ lock[Head(fr[t].need)] \in D)

\* A chanselect over channels 1 and 2 holds lock 1 and waits for lock 2,
\* which the third thread holds, while a chanselect that lists channel 1
\* twice waits for lock 1, the only lock it needs.
C20_Witness ==
    \E t, u \in Threads :
        /\ t # u
        /\ groups[t] # <<>> /\ Cur(St, t).call.kind = "select"
        /\ groups[u] # <<>> /\ Cur(St, u).call.kind = "select"
        /\ Len(Cur(St, u).wishes) = 2
        /\ \A i \in 1..2 : Cur(St, u).wishes[i].chan = 1
        /\ pc[t] = "lock" /\ HeldLocks(t) = {1} /\ fr[t].need = <<2>>
        /\ lock[2] \notin {0, t, u}
        /\ pc[u] = "lock" /\ fr[u].need = <<1>>

\* The calls of thread t have all returned.
AllReturned(t) ==
    /\ pc[t] = "idle"
    /\ NextCall(t).kind = "nocall"
    /\ \A k \in 1..Len(groups[t]) : Returned(groups[t][k])

\* C21 (SpecPair): the k-th get returns the value of the k-th put, no call
\* ends with an error, both queues of the channel are empty whenever neither
\* thread is inside a call, and under fair scheduling every put and every get
\* returns: no thread stays asleep in cond.wait() once its wish is fulfilled.
C21_PairCompletes ==
    /\ [](/\ \A k \in 1..Len(Got(2)) :
                k <= Len(groups[1]) /\ Got(2)[k] = groups[1][k].call.value
          /\ \A t \in Threads : \A k \in 1..Len(groups[t]) :
                groups[t][k].outcome.kind \in {"pending", "ok"}
          /\ NoCallInProgress =>
                waiting_producers[1] = <<>> /\ waiting_consumers[1] = <<>>
          /\ \A t \in Threads : pc[t] = "sleep" => Cur(St, t).fulfilled_by = 0)
    /\ <>(AllReturned(1) /\ AllReturned(2) /\ Len(Got(2)) = Len(groups[1]))

\* C21 witness: every call has returned, one pair with the get first (the
\* get waited and the put fulfilled its wish) and one with the put first.
C21_Witness ==
    /\ DOMAIN prog = 1..2 /\ prog[1].role = "calls" /\ Len(buflen) = 1
    /\ AllReturned(1) /\ AllReturned(2)
    /\ \E k \in 1..Len(groups[2]) : groups[2][k].by = 1
    /\ \E k \in 1..Len(groups[1]) : groups[1][k].by = 1

\* The step changes the closed flag, the ring buffer or a queue of channel c.
ChanChanged(c) ==
    \/ closed'[c] # closed[c]
    \/ buf'[c] # buf[c]
    \/ waiting_producers'[c] # waiting_producers[c]
    \/ waiting_consumers'[c] # waiting_consumers[c]

SentValue(g) == IF g.call.kind = "put" THEN g.call.value ELSE g.wishes[g.by].value

\* The sends on c that returned success, each with its value.
SendsDone(c) == {<<tk, SentValue(CallOf(tk))>> : tk \in SendsReturned(c)}

\* The get and select-receive operations started on c that were committed
\* with a value, each with the value: the call took it itself under the
\* channel lock and returned it, or a sender fulfilled its wish on c (the
\* call may not have returned yet).
RecvsCommitted(c) ==
    {<<tk, CallOf(tk).outcome.value>> : tk \in RecvsReturned(c)}
    \cup UNION {{<<tk, CallOf(tk).wishes[i].value>> :
                    i \in {j \in DOMAIN CallOf(tk).wishes :
                              /\ CallOf(tk).wishes[j].kind = WISH_CONSUME
                              /\ CallOf(tk).wishes[j].chan = c
                              /\ CallOf(tk).wishes[j].xf > 0}} : tk \in CallIds}

\* C23 (Spec): on an unbuffered channel the sends that returned success are
\* no more than the receive operations committed on that channel, and each
\* value sent with success is the value of such a receive.
C23_PutNeedsReceiver ==
    \A c \in Chans :
        buflen[c] = 0 =>
            /\ Cardinality(SendsDone(c)) <= Cardinality(RecvsCommitted(c))
            /\ {x[2] : x \in SendsDone(c)} \subseteq {x[2] : x \in RecvsCommitted(c)}

\* C23 witness: a put on the unbuffered channel found no receiver, waited,
\* and returned success once a receiver had taken its value.
C23_Witness ==
    \E tk \in CallIds :
        LET g == CallOf(tk) IN
        /\ g.call.kind = "put" /\ Returned(g) /\ g.by = 1
        /\ buflen[g.call.chan] = 0
        /\ \E x \in RecvsCommitted(g.call.chan) : x[2] = g.call.value

\* Every wish made so far, as <<t, k, i>>.
AllWishes ==
    UNION {UNION {{<<t, k, i>> : i \in DOMAIN groups[t][k].wishes} :
                     k \in DOMAIN groups[t]} : t \in Threads}

\* Wish w was appended to a queue before wish v of the same kind on the same
\* channel.
Before(w, v) ==
    /\ WishOf(groups, w).kind = WishOf(groups, v).kind
    /\ WishOf(groups, w).chan = WishOf(groups, v).chan
    /\ 0 < WishOf(groups, w).at
    /\ WishOf(groups, w).at < WishOf(groups, v).at

\* C24 (Spec): when a value is moved on behalf of a waiting wish v, the group
\* of v was not fulfilled, and every wish appended before v to the same
\* queue is of a group that is fulfilled or of a call that has ended; a
\* waiting wish has a value moved at most once and only as the wish that
\* fulfils its group.
C24_FifoCommit ==
    [][\A v \in AllWishes :
          /\ (WishOf(groups, v).at > 0 /\ WishOf(groups', v).xf > WishOf(groups, v).xf) =>
                /\ ~GroupFulfilled(St, v)
                /\ \A w \in AllWishes :
                      Before(w, v) => GroupFulfilled(St, w) \/ Ended(groups[w[1]][w[2]])
          /\ (WishOf(groups', v).at > 0 /\ WishOf(groups', v).xf > 0) =>
                /\ WishOf(groups', v).xf = 1
                /\ groups'[v[1]][v[2]].fulfilled_by = v[3]]_vars

\* C24 witness: two wishes of the same kind waited on one channel; a value
\* was moved for the one appended first while the other, its group not
\* fulfilled, is still in the queue.
C24_Witness ==
    \E w, v \in AllWishes :
        /\ Before(w, v)
        /\ WishOf(groups, w).xf = 1
        /\ ~GroupFulfilled(St, v)
        /\ v \in Range(waiting_producers[WishOf(groups, v).chan])
                  \cup Range(waiting_consumers[WishOf(groups, v).chan])

\* Thread t is in the first pass of a chanselect, its channel locks held,
\* with a receive candidate on c, and c is closed with values in its buffer.
ShutCandidate(t, c) ==
    /\ InFirstPass(t)
    /\ \E i \in DOMAIN Cur(St, t).wishes :
          Cur(St, t).wishes[i].kind = WISH_CONSUME /\ Cur(St, t).wishes[i].chan = c
    /\ closed[c] /\ buflen[c] > 0 /\ ~RbEmpty(buf[c])

\* C25 (SpecShut) as claimed: a chanselect with a receive candidate on a
\* closed channel whose buffer holds values leaves that buffer as it is and
\* ends with ChanClosed naming a closed channel.
C25_ShutLeavesBuffer ==
    [][\A t \in Threads : \A c \in Chans :
          ShutCandidate(t, c) =>
              /\ buf'[c] = buf[c]
              /\ Ended(groups'[t][Len(groups[t])]) =>
                    /\ groups'[t][Len(groups[t])].outcome.kind = "ChanClosed"
                    /\ closed[groups'[t][Len(groups[t])].outcome.chan]]_vars

\* The call ended with Timeout or ChanClosed.
Failed(g) == g.outcome.kind \in {"Timeout", "ChanClosed"}

\* The values a call offers to send.
Offered(g) ==
    IF g.call.kind = "put" THEN {g.call.value}
    ELSE {g.call.prods[i][2] : i \in DOMAIN g.call.prods}

\* The values that are in a buffer, in a receive wish or in the result of a
\* call that received.
Delivered ==
    UNION {Range(RbContents(buf[c])) : c \in Chans}
    \cup {WishOf(groups, w).value : w \in {v \in AllWishes : WishOf(groups, v).kind = WISH_CONSUME}}
    \cup {CallOf(tk).outcome.value : tk \in {x \in CallIds : IsRecv(CallOf(x))}}

\* C26 (Spec): a call that ended with Timeout or ChanClosed has had no value
\* moved on behalf of any of its wishes, then or later; what it offered to
\* send is in no buffer and with no receiver; it holds no received value;
\* and the step that ends it so leaves every buffer as it was, with no
\* value popped from a buffer by the call.
C26_FailedMovesNothing ==
    /\ [](\A tk \in CallIds :
            LET g == CallOf(tk) IN
            Failed(g) /\ g.call.kind # "close" =>
                /\ Xf(g) = 0
                /\ Offered(g) \cap Delivered = {}
                /\ g.outcome.value = None
                /\ \A i \in DOMAIN g.wishes :
                      g.wishes[i].kind = WISH_CONSUME => g.wishes[i].value = None)
    /\ [][\A t \in Threads :
            (/\ groups[t] # <<>>
             /\ ~Ended(Cur(St, t))
             /\ Failed(groups'[t][Len(groups[t])]))
            => (buf' = buf /\ ~fr[t].cycle)]_vars

\* C26 witness: a put that waited has ended with ChanClosed and a get that
\* waited has ended with Timeout.
C26_Witness ==
    /\ \E tk \in CallIds :
          /\ CallOf(tk).call.kind = "put" /\ CallOf(tk).wishes # <<>>
          /\ CallOf(tk).outcome.kind = "ChanClosed"
    /\ \E tk \in CallIds :
          /\ CallOf(tk).call.kind = "get" /\ CallOf(tk).wishes # <<>>
          /\ CallOf(tk).outcome.kind = "Timeout"

\* The wishes in a queue whose group is not fulfilled.
Unfulfilled(q) == {w \in Range(q) : ~GroupFulfilled(St, w)}

\* C27 (SpecLock): while the lock of a channel is free, an unfulfilled send
\* wish and an unfulfilled receive wish in its queues are of the same group.
C27_NoPairLeftWaiting ==
    \A c \in Chans :
        lock[c] = 0 =>
            \A w \in Unfulfilled(waiting_producers[c]), v \in Unfulfilled(waiting_consumers[c]) :
                w[1] = v[1] /\ w[2] = v[2]

\* C27 witness: a chanselect with a send and a receive on the same channel
\* waits with both wishes queued, the lock of the channel free.
C27_Witness ==
    \E c \in Chans :
        /\ lock[c] = 0
        /\ Unfulfilled(waiting_producers[c]) # {}
        /\ Unfulfilled(waiting_consumers[c]) # {}

\* C28 (SpecPipe): while the lock of a buffered channel is free, an
\* unfulfilled send wish waits only on a full buffer and an unfulfilled
\* receive wish only on an empty one.
C28_WaitMatchesBuffer ==
    \A c \in Chans :
        lock[c] = 0 /\ buflen[c] > 0 =>
            /\ Unfulfilled(waiting_producers[c]) # {} => RbFull(buf[c])
            /\ Unfulfilled(waiting_consumers[c]) # {} => RbEmpty(buf[c])

\* C28 witness: a receiver has taken a value from the full buffer, the
\* waiting sender's value went onto the buffer, and the sender waits again
\* with its next value.
C28_Witness ==
    /\ lock[1] = 0 /\ buflen[1] > 0
    /\ Unfulfilled(waiting_producers[1]) # {}
    /\ RbFull(buf[1])
    /\ \E tk \in RecvsReturned(1) : TRUE
    /\ \E tk \in SendsReturned(1) : CallOf(tk).by = 1

\* A reference FIFO queue bounded at cap, run over the calls of a record
\* from call k on: the results it gives, as <<raised, value>>, and the queue
\* it is left with.
RECURSIVE RefRun(_, _, _, _)
RefRun(G, k, q, cap) ==
    IF k > Len(G) THEN [results |-> <<>>, q |-> q]
    ELSE IF G[k].call.kind = "push"
    THEN IF Len(q) >= cap
         THEN LET r == RefRun(G, k + 1, q, cap)
              IN [r EXCEPT !.results = <<<<TRUE, None>>>> \o @]
         ELSE LET r == RefRun(G, k + 1, Append(q, G[k].call.value), cap)
              IN [r EXCEPT !.results = <<<<FALSE, None>>>> \o @]
    ELSE IF q = <<>>
         THEN LET r == RefRun(G, k + 1, q, cap)
              IN [r EXCEPT !.results = <<<<TRUE, None>>>> \o @]
         ELSE LET r == RefRun(G, k + 1, Tail(q), cap)
              IN [r EXCEPT !.results = <<<<FALSE, Head(q)>>>> \o @]

\* The results the RingBuffer gave, as <<raised, value>>.
RingResults(G) ==
    [k \in 1..Len(G) |-> <<G[k].outcome.kind # "ok", G[k].outcome.value>>]

\* The push calls, the pop calls of a record that succeeded.
Pushed(G) == {k \in 1..Len(G) : G[k].call.kind = "push" /\ Returned(G[k])}
Popped(G) == {k \in 1..Len(G) : G[k].call.kind = "pop" /\ Returned(G[k])}

\* C29 (SpecRing): after every sequence of push and pop calls the RingBuffer
\* has given the results a bounded FIFO queue of its capacity gives, holds
\* the values that queue holds, in order, and its length is the number of
\* successful pushes less the number of successful pops, within 0..capacity.
C29_RingIsFifo ==
    LET ref == RefRun(groups[1], 1, <<>>, buflen[1]) IN
    /\ RingResults(groups[1]) = ref.results
    /\ RbContents(buf[1]) = ref.q
    /\ buf[1].len = Cardinality(Pushed(groups[1])) - Cardinality(Popped(groups[1]))
    /\ buf[1].len \in 0..RbCap(buf[1])
    /\ RbCap(buf[1]) = buflen[1]

\* C29 witness: on a buffer of capacity two or more, filled and emptied, the
\* head index has gone round the storage twice.
C29_Witness ==
    /\ RbCap(buf[1]) >= 2
    /\ Cardinality(Popped(groups[1])) >= 2 * RbCap(buf[1])
    /\ \E k \in 2..Len(groups[1]) :
          /\ groups[1][k].call.kind = "push" /\ Returned(groups[1][k])
          /\ groups[1][k - 1].call.kind = "push" /\ Returned(groups[1][k - 1])

\* C30 (SpecRing): a push on a full buffer and a pop on an empty buffer end
\* with IndexError and leave the storage, the head index and the length as
\* they were.
C30_RingRejects ==
    [][LET call == groups'[1][Len(groups'[1])].call
           out == groups'[1][Len(groups'[1])].outcome
       IN (\/ call.kind = "push" /\ RbFull(buf[1])
           \/ call.kind = "pop" /\ RbEmpty(buf[1]))
          => (out.kind = "IndexError" /\ buf'[1] = buf[1])]_vars

\* C30 witness: a push was refused on a full buffer of capacity one or more
\* and a pop was refused on an empty one.
C30_Witness ==
    /\ RbCap(buf[1]) >= 1
    /\ \E k \in 2..Len(groups[1]) :
          /\ groups[1][k].call.kind = "push" /\ groups[1][k].outcome.kind = "IndexError"
          /\ Returned(groups[1][k - 1])
    /\ \E k \in 1..Len(groups[1]) :
          groups[1][k].call.kind = "pop" /\ groups[1][k].outcome.kind = "IndexError"

----------------------------------------------------------------------------
\* C32

\* The slots (0-based, as in the code) of the live window: len slots from
\* next_pop, modulo the capacity.
LiveSlots(rb) == {(rb.next_pop + i) % Len(rb.buf) : i \in 0..(rb.len - 1)}

\* C32: in every reachable state of a RingBuffer, every slot outside the
\* live window of len slots starting at next_pop (modulo the capacity)
\* holds None: a popped slot keeps no reference to the value it held.
C32_PoppedSlotsCleared ==
    \A i \in 0..(Len(buf[1].buf) - 1) :
        i \notin LiveSlots(buf[1]) => buf[1].buf[i + 1] = None

\* A value was popped, the window has wrapped round the end of the list
\* and a slot outside it exists.
C32_Witness ==
    /\ Popped(groups[1]) # {}
    /\ buf[1].len >= 2
    /\ buf[1].len < Len(buf[1].buf)
    /\ buf[1].next_pop + buf[1].len > Len(buf[1].buf)

----------------------------------------------------------------------------
\* C31

\* Thread t runs close().
Closing(t) == InCall(t) /\ Cur(St, t).call.kind = "close"

\* C31 (SpecGroupLock): no thread is at the acquire of a channel lock
\* while it holds the lock of a wish group; close() never holds its
\* channel's lock and a group lock at the same time: once it has copied
\* the queues it holds no channel lock, and it holds the group locks of
\* the copy one at a time.
C31_GroupLockInnermost ==
    /\ \A t \in Threads : pc[t] = "lock" => GroupLocksHeld(St, t) = {}
    /\ \A t \in Threads :
          Closing(t) => HeldLocks(t) = {} \/ GroupLocksHeld(St, t) = {}
    /\ \A t \in Threads :
          pc[t] = "close_loop" =>
            HeldLocks(t) = {} /\ Cardinality(GroupLocksHeld(St, t)) <= 1

\* close() holds the lock of the group of a chanselect that has left its
\* wait and is at the acquire of its channel locks again.
C31_Witness ==
    \E t, u \in Threads :
        /\ pc[t] = "close_loop"
        /\ GroupLocksHeld(St, t) = {<<u, K(St, u)>>}
        /\ pc[u] = "lock" /\ fr[u].sweep

====
